---- MODULE Spec2Model ----
\* The classification-and-merge engine of mcp-server-dataset: the classifiers
\* (daily.py and manual-insert.py assign_category), the two merge paths
\* (daily.py merge_repos and extract_mcp_servers.py merge_servers) and the
\* runs that persist the merged snapshot.
\*
\* Text is modelled at the level of code points: a string is a sequence of
\* numbers, "x in s" on strings is a substring test, lower() maps A-Z to a-z.
EXTENDS Integers, Sequences, FiniteSets, TLC

VARIABLES
  prog,          \* which program runs: "extract" (extract_mcp_servers.py), "daily" (daily.py), "classify"
  pc,            \* position of the run
  old,           \* main's old_servers / old_repos: the rows read from the previous artifact
  new,           \* main's new_servers / new_repos: the harvest
  prior,         \* history: the value of old when the merge was called
  harvest,       \* history: the value of new when the merge was called
  merged,        \* what the merge returned, or that it raised
  written,       \* the rows save_to_csv handed to the csv writer
  in_keywords,   \* assign_category input: the keyword list, as a set of words
  in_emojis,     \* assign_category input: the marker string
  in_text,       \* manual-insert assign_category input: the description text
  out_category,  \* the string returned (a label, or the marker string of generate_emojis)
  out_evaluated, \* how many conditions of the chain were evaluated before returning
  in_readme,     \* generate_emojis input: str(readme_content)
  out_list,      \* the list a resolver or extractor returned (labels, markers or keywords)
  files,         \* the data directory: for each day, the artifact mcp_servers_<day>.csv
  today,         \* the day of datetime.now()
  search_keywords,            \* search_github_repos: the keywords list
  response,                   \* search_github_repos: the response to the last request for the current keyword
  page,                       \* search_github_repos: how many requests were made for the current keyword
  all_repo_data_for_keyword,  \* search_github_repos: the records collected for the current keyword
  failed         \* history: the positions of the keywords for which a request failed

vars ==
  <<prog, pc, old, new, prior, harvest, merged, written,
    in_keywords, in_emojis, in_text, out_category, out_evaluated,
    in_readme, out_list, files, today,
    search_keywords, response, page, all_repo_data_for_keyword, failed>>

-----------------------------------------------------------------------------
\* Bounds of the model.

\* Largest number of keywords in a generated keyword list.
MaxKeywords == 2
\* Largest number of markers joined into a generated marker string.
MaxMarkers == 1
\* Largest number of words in a generated description text.
MaxWords == 2
\* Largest number of rows in the previous artifact.
MaxPrior == 2
\* Largest number of sections in the listing document, and of entries in a section.
MaxSections == 2
MaxEntries == 1
\* Largest number of search terms, and of repositories returned for one term.
MaxTerms == 2
MaxRepos == 1
\* Number of days the runs are followed over.
MaxDays == 3
\* Number of requests for one search keyword.
MaxPages == 2

-----------------------------------------------------------------------------
\* Strings.

\* Python "sub in s" on strings.
Contains(sub, s) ==
  \E i \in 0..(Len(s) - Len(sub)) : SubSeq(s, i + 1, i + Len(sub)) = sub

\* str.lower() on one code point (the texts of the model are ASCII).
LowerChar(c) == IF c >= 65 /\ c <= 90 THEN c + 32 ELSE c

\* str.lower().
Lower(s) == [i \in 1..Len(s) |-> LowerChar(s[i])]

\* sep.join(parts) for a sequence of strings.
RECURSIVE Join(_, _)
Join(sep, parts) ==
  IF Len(parts) = 0 THEN <<>>
  ELSE IF Len(parts) = 1 THEN parts[1]
  ELSE parts[1] \o sep \o Join(sep, Tail(parts))

\* " "
Space == <<32>>

\* The words of the sources (tested keywords, searched substrings, labels) and
\* of the inputs of the model, each as its sequence of code points.
W ==
  [ aggregator |-> <<97, 103, 103, 114, 101, 103, 97, 116, 111, 114>>
  , art_culture |-> <<97, 114, 116, 95, 99, 117, 108, 116, 117, 114, 101>>
  , browser |-> <<98, 114, 111, 119, 115, 101, 114>>
  , automation |-> <<97, 117, 116, 111, 109, 97, 116, 105, 111, 110>>
  , browser_automation |-> <<98, 114, 111, 119, 115, 101, 114, 95, 97, 117, 116, 111, 109, 97, 116, 105, 111, 110>>
  , cloud |-> <<99, 108, 111, 117, 100>>
  , aws |-> <<97, 119, 115>>
  , azure |-> <<97, 122, 117, 114, 101>>
  , gcp |-> <<103, 99, 112>>
  , cloud_platform |-> <<99, 108, 111, 117, 100, 95, 112, 108, 97, 116, 102, 111, 114, 109>>
  , code |-> <<99, 111, 100, 101>>
  , execution |-> <<101, 120, 101, 99, 117, 116, 105, 111, 110>>
  , code_execution |-> <<99, 111, 100, 101, 95, 101, 120, 101, 99, 117, 116, 105, 111, 110>>
  , agent |-> <<97, 103, 101, 110, 116>>
  , coding |-> <<99, 111, 100, 105, 110, 103>>
  , coding_agent |-> <<99, 111, 100, 105, 110, 103, 95, 97, 103, 101, 110, 116>>
  , cli |-> <<99, 108, 105>>
  , command |-> <<99, 111, 109, 109, 97, 110, 100>>
  , line |-> <<108, 105, 110, 101>>
  , command_line |-> <<99, 111, 109, 109, 97, 110, 100, 95, 108, 105, 110, 101>>
  , communication |-> <<99, 111, 109, 109, 117, 110, 105, 99, 97, 116, 105, 111, 110>>
  , chat |-> <<99, 104, 97, 116>>
  , customer |-> <<99, 117, 115, 116, 111, 109, 101, 114>>
  , data |-> <<100, 97, 116, 97>>
  , customer_data |-> <<99, 117, 115, 116, 111, 109, 101, 114, 95, 100, 97, 116, 97>>
  , database |-> <<100, 97, 116, 97, 98, 97, 115, 101>>
  , sql |-> <<115, 113, 108>>
  , nosql |-> <<110, 111, 115, 113, 108>>
  , platform |-> <<112, 108, 97, 116, 102, 111, 114, 109>>
  , data_platform |-> <<100, 97, 116, 97, 95, 112, 108, 97, 116, 102, 111, 114, 109>>
  , developer |-> <<100, 101, 118, 101, 108, 111, 112, 101, 114>>
  , tool |-> <<116, 111, 111, 108>>
  , developer_tool |-> <<100, 101, 118, 101, 108, 111, 112, 101, 114, 95, 116, 111, 111, 108>>
  , science |-> <<115, 99, 105, 101, 110, 99, 101>>
  , data_science |-> <<100, 97, 116, 97, 95, 115, 99, 105, 101, 110, 99, 101>>
  , embedded |-> <<101, 109, 98, 101, 100, 100, 101, 100>>
  , system |-> <<115, 121, 115, 116, 101, 109>>
  , embedded_system |-> <<101, 109, 98, 101, 100, 100, 101, 100, 95, 115, 121, 115, 116, 101, 109>>
  , file |-> <<102, 105, 108, 101>>
  , file_system |-> <<102, 105, 108, 101, 95, 115, 121, 115, 116, 101, 109>>
  , finance |-> <<102, 105, 110, 97, 110, 99, 101>>
  , money |-> <<109, 111, 110, 101, 121>>
  , gaming |-> <<103, 97, 109, 105, 110, 103>>
  , game |-> <<103, 97, 109, 101>>
  , knowledge |-> <<107, 110, 111, 119, 108, 101, 100, 103, 101>>
  , brain |-> <<98, 114, 97, 105, 110>>
  , location |-> <<108, 111, 99, 97, 116, 105, 111, 110>>
  , map |-> <<109, 97, 112>>
  , marketing |-> <<109, 97, 114, 107, 101, 116, 105, 110, 103>>
  , ad |-> <<97, 100>>
  , monitoring |-> <<109, 111, 110, 105, 116, 111, 114, 105, 110, 103>>
  , metrics |-> <<109, 101, 116, 114, 105, 99, 115>>
  , search |-> <<115, 101, 97, 114, 99, 104>>
  , find |-> <<102, 105, 110, 100>>
  , security |-> <<115, 101, 99, 117, 114, 105, 116, 121>>
  , secure |-> <<115, 101, 99, 117, 114, 101>>
  , sports |-> <<115, 112, 111, 114, 116, 115>>
  , athlete |-> <<97, 116, 104, 108, 101, 116, 101>>
  , support |-> <<115, 117, 112, 112, 111, 114, 116>>
  , help |-> <<104, 101, 108, 112>>
  , translation |-> <<116, 114, 97, 110, 115, 108, 97, 116, 105, 111, 110>>
  , language |-> <<108, 97, 110, 103, 117, 97, 103, 101>>
  , travel |-> <<116, 114, 97, 118, 101, 108>>
  , trip |-> <<116, 114, 105, 112>>
  , version |-> <<118, 101, 114, 115, 105, 111, 110>>
  , control |-> <<99, 111, 110, 116, 114, 111, 108>>
  , version_control |-> <<118, 101, 114, 115, 105, 111, 110, 95, 99, 111, 110, 116, 114, 111, 108>>
  , mcp |-> <<109, 99, 112>>
  , phrase_model_context_protocol |-> <<109, 111, 100, 101, 108, 32, 99, 111, 110, 116, 101, 120, 116, 32, 112, 114, 111, 116, 111, 99, 111, 108>>
  , phrase_context_protocol |-> <<99, 111, 110, 116, 101, 120, 116, 32, 112, 114, 111, 116, 111, 99, 111, 108>>
  , framework |-> <<102, 114, 97, 109, 101, 119, 111, 114, 107>>
  , sdk |-> <<115, 100, 107>>
  , kit |-> <<107, 105, 116>>
  , template |-> <<116, 101, 109, 112, 108, 97, 116, 101>>
  , utility |-> <<117, 116, 105, 108, 105, 116, 121>>
  , helper |-> <<104, 101, 108, 112, 101, 114>>
  , gateway |-> <<103, 97, 116, 101, 119, 97, 121>>
  , proxy |-> <<112, 114, 111, 120, 121>>
  , bridge |-> <<98, 114, 105, 100, 103, 101>>
  , client |-> <<99, 108, 105, 101, 110, 116>>
  , interface |-> <<105, 110, 116, 101, 114, 102, 97, 99, 101>>
  , tutorial |-> <<116, 117, 116, 111, 114, 105, 97, 108>>
  , guide |-> <<103, 117, 105, 100, 101>>
  , example |-> <<101, 120, 97, 109, 112, 108, 101>>
  , demo |-> <<100, 101, 109, 111>>
  , community |-> <<99, 111, 109, 109, 117, 110, 105, 116, 121>>
  , discord |-> <<100, 105, 115, 99, 111, 114, 100>>
  , reddit |-> <<114, 101, 100, 100, 105, 116>>
  , postgres |-> <<112, 111, 115, 116, 103, 114, 101, 115>>
  , mysql |-> <<109, 121, 115, 113, 108>>
  , mongodb |-> <<109, 111, 110, 103, 111, 100, 98>>
  , api |-> <<97, 112, 105>>
  , rest |-> <<114, 101, 115, 116>>
  , graphql |-> <<103, 114, 97, 112, 104, 113, 108>>
  , http |-> <<104, 116, 116, 112>>
  , storage |-> <<115, 116, 111, 114, 97, 103, 101>>
  , s3 |-> <<115, 51>>
  , ai |-> <<97, 105>>
  , llm |-> <<108, 108, 109>>
  , gpt |-> <<103, 112, 116>>
  , claude |-> <<99, 108, 97, 117, 100, 101>>
  , model |-> <<109, 111, 100, 101, 108>>
  , messaging |-> <<109, 101, 115, 115, 97, 103, 105, 110, 103>>
  , slack |-> <<115, 108, 97, 99, 107>>
  , telegram |-> <<116, 101, 108, 101, 103, 114, 97, 109>>
  , elastic |-> <<101, 108, 97, 115, 116, 105, 99>>
  , lucene |-> <<108, 117, 99, 101, 110, 101>>
  , phrase_data_science |-> <<100, 97, 116, 97, 32, 115, 99, 105, 101, 110, 99, 101>>
  , git |-> <<103, 105, 116>>
  , general |-> <<103, 101, 110, 101, 114, 97, 108>>
  , other |-> <<111, 116, 104, 101, 114>>
  , a |-> <<97>>
  , python |-> <<112, 121, 116, 104, 111, 110>>
  , foo |-> <<102, 111, 111>>
  , bar |-> <<98, 97, 114>>
  , old |-> <<111, 108, 100>>
  , entry |-> <<101, 110, 116, 114, 121>>
  ]

\* daily.py assign_category: one row per if statement, in source order.
\* kind "E": marker in emojis; "AND": marker in emojis and any(word in keywords);
\* "OR": marker in emojis or any(word in keywords); "K": any(word in keywords).
\* The markers are the code points of the string literals as the file stores them.
CategoryRules ==
  << [kind |-> "E", marker |-> <<240, 376, 8221, 8212>>, words |-> {}, label |-> W.aggregator]
   , [kind |-> "E", marker |-> <<240, 376, 381, 168>>, words |-> {}, label |-> W.art_culture]
   , [kind |-> "AND", marker |-> <<240, 376, 8220, 8218>>, words |-> {W.browser, W.automation}, label |-> W.browser_automation]
   , [kind |-> "AND", marker |-> <<226, 732, 239, 184>>, words |-> {W.cloud, W.aws, W.azure, W.gcp}, label |-> W.cloud_platform]
   , [kind |-> "OR", marker |-> <<240, 376, 8216, 168, 226, 8364, 240, 376, 8217, 187>>, words |-> {W.code, W.execution}, label |-> W.code_execution]
   , [kind |-> "OR", marker |-> <<240, 376, 164, 8211>>, words |-> {W.agent, W.coding}, label |-> W.coding_agent]
   , [kind |-> "OR", marker |-> <<240, 376, 8211, 165, 239, 184>>, words |-> {W.cli, W.command, W.line}, label |-> W.command_line]
   , [kind |-> "OR", marker |-> <<240, 376, 8217, 172>>, words |-> {W.communication, W.chat}, label |-> W.communication]
   , [kind |-> "OR", marker |-> <<240, 376, 8216, 164>>, words |-> {W.customer, W.data}, label |-> W.customer_data]
   , [kind |-> "OR", marker |-> <<240, 376, 8212, 8222, 239, 184>>, words |-> {W.database, W.sql, W.nosql}, label |-> W.database]
   , [kind |-> "AND", marker |-> <<240, 376, 8220, 352>>, words |-> {W.data, W.platform}, label |-> W.data_platform]
   , [kind |-> "OR", marker |-> <<240, 376, 8250, 160, 239, 184>>, words |-> {W.developer, W.tool}, label |-> W.developer_tool]
   , [kind |-> "OR", marker |-> <<240, 376, 167, 174>>, words |-> {W.data, W.science}, label |-> W.data_science]
   , [kind |-> "OR", marker |-> <<240, 376, 8220, 376>>, words |-> {W.embedded, W.system}, label |-> W.embedded_system]
   , [kind |-> "AND", marker |-> <<240, 376, 8220, 8218>>, words |-> {W.file, W.system}, label |-> W.file_system]
   , [kind |-> "OR", marker |-> <<240, 376, 8217, 176>>, words |-> {W.finance, W.money}, label |-> W.finance]
   , [kind |-> "OR", marker |-> <<240, 376, 381, 174>>, words |-> {W.gaming, W.game}, label |-> W.gaming]
   , [kind |-> "OR", marker |-> <<240, 376, 167, 160>>, words |-> {W.knowledge, W.brain}, label |-> W.knowledge]
   , [kind |-> "OR", marker |-> <<240, 376, 8212, 186, 239, 184>>, words |-> {W.location, W.map}, label |-> W.location]
   , [kind |-> "OR", marker |-> <<240, 376, 381, 175>>, words |-> {W.marketing, W.ad}, label |-> W.marketing]
   , [kind |-> "AND", marker |-> <<240, 376, 8220, 352>>, words |-> {W.monitoring, W.metrics}, label |-> W.monitoring]
   , [kind |-> "OR", marker |-> <<240, 376, 8221, 381>>, words |-> {W.search, W.find}, label |-> W.search]
   , [kind |-> "OR", marker |-> <<240, 376, 8221, 8217>>, words |-> {W.security, W.secure}, label |-> W.security]
   , [kind |-> "OR", marker |-> <<240, 376, 402>>, words |-> {W.sports, W.athlete}, label |-> W.sports]
   , [kind |-> "OR", marker |-> <<240, 376, 381, 167>>, words |-> {W.support, W.help}, label |-> W.support]
   , [kind |-> "OR", marker |-> <<240, 376, 338, 381>>, words |-> {W.translation, W.language}, label |-> W.translation]
   , [kind |-> "OR", marker |-> <<240, 376, 353, 8224>>, words |-> {W.travel, W.trip}, label |-> W.travel]
   , [kind |-> "OR", marker |-> <<240, 376, 8221, 8222>>, words |-> {W.version, W.control}, label |-> W.version_control]
   , [kind |-> "K", marker |-> <<>>, words |-> {W.mcp, W.phrase_model_context_protocol, W.phrase_context_protocol}, label |-> W.mcp]
   , [kind |-> "K", marker |-> <<>>, words |-> {W.framework, W.sdk, W.kit, W.template}, label |-> W.framework]
   , [kind |-> "K", marker |-> <<>>, words |-> {W.utility, W.tool, W.helper, W.gateway, W.proxy, W.bridge}, label |-> W.utility]
   , [kind |-> "K", marker |-> <<>>, words |-> {W.client, W.chat, W.interface}, label |-> W.client]
   , [kind |-> "K", marker |-> <<>>, words |-> {W.tutorial, W.guide, W.example, W.demo}, label |-> W.tutorial]
   , [kind |-> "K", marker |-> <<>>, words |-> {W.community, W.discord, W.reddit}, label |-> W.community]
   , [kind |-> "K", marker |-> <<>>, words |-> {W.database, W.sql, W.nosql, W.postgres, W.mysql, W.mongodb}, label |-> W.database]
   , [kind |-> "K", marker |-> <<>>, words |-> {W.api, W.rest, W.graphql, W.http}, label |-> W.api]
   , [kind |-> "K", marker |-> <<>>, words |-> {W.file, W.storage, W.s3, W.cloud}, label |-> W.storage]
   , [kind |-> "K", marker |-> <<>>, words |-> {W.ai, W.llm, W.gpt, W.claude, W.model}, label |-> W.ai]
   , [kind |-> "K", marker |-> <<>>, words |-> {W.chat, W.messaging, W.discord, W.slack, W.telegram}, label |-> W.messaging]
   , [kind |-> "K", marker |-> <<>>, words |-> {W.search, W.elastic, W.lucene}, label |-> W.search]
  >>

\* manual-insert.py assign_category: one row per if statement, in source order.
\* The words of a row are the substrings searched in the lower-cased text.
ManualCategoryRules ==
  << [kind |-> "E", marker |-> <<128279>>, words |-> {}, label |-> W.aggregator]
   , [kind |-> "E", marker |-> <<127912>>, words |-> {}, label |-> W.art_culture]
   , [kind |-> "AND", marker |-> <<128194>>, words |-> {W.browser}, label |-> W.browser_automation]
   , [kind |-> "AND", marker |-> <<9729, 65039>>, words |-> {W.cloud}, label |-> W.cloud_platform]
   , [kind |-> "OR", marker |-> <<128104, 8205, 128187>>, words |-> {W.code}, label |-> W.code_execution]
   , [kind |-> "OR", marker |-> <<129302>>, words |-> {W.agent}, label |-> W.coding_agent]
   , [kind |-> "OR", marker |-> <<128421, 65039>>, words |-> {W.cli}, label |-> W.command_line]
   , [kind |-> "OR", marker |-> <<128172>>, words |-> {W.communication}, label |-> W.communication]
   , [kind |-> "OR", marker |-> <<128100>>, words |-> {W.customer}, label |-> W.customer_data]
   , [kind |-> "OR", marker |-> <<128452, 65039>>, words |-> {W.database}, label |-> W.database]
   , [kind |-> "AND", marker |-> <<128202>>, words |-> {W.data}, label |-> W.data_platform]
   , [kind |-> "OR", marker |-> <<128736, 65039>>, words |-> {W.developer}, label |-> W.developer_tool]
   , [kind |-> "OR", marker |-> <<129518>>, words |-> {W.phrase_data_science}, label |-> W.data_science]
   , [kind |-> "OR", marker |-> <<128223>>, words |-> {W.embedded}, label |-> W.embedded_system]
   , [kind |-> "AND", marker |-> <<128194>>, words |-> {W.file}, label |-> W.file_system]
   , [kind |-> "OR", marker |-> <<128176>>, words |-> {W.finance}, label |-> W.finance]
   , [kind |-> "OR", marker |-> <<127918>>, words |-> {W.gaming}, label |-> W.gaming]
   , [kind |-> "OR", marker |-> <<129504>>, words |-> {W.knowledge}, label |-> W.knowledge]
   , [kind |-> "OR", marker |-> <<128506, 65039>>, words |-> {W.location}, label |-> W.location]
   , [kind |-> "OR", marker |-> <<127919>>, words |-> {W.marketing}, label |-> W.marketing]
   , [kind |-> "AND", marker |-> <<128202>>, words |-> {W.monitoring}, label |-> W.monitoring]
   , [kind |-> "OR", marker |-> <<128270>>, words |-> {W.search}, label |-> W.search]
   , [kind |-> "OR", marker |-> <<128274>>, words |-> {W.security}, label |-> W.security]
   , [kind |-> "OR", marker |-> <<127939>>, words |-> {W.sports}, label |-> W.sports]
   , [kind |-> "OR", marker |-> <<127911>>, words |-> {W.support}, label |-> W.support]
   , [kind |-> "OR", marker |-> <<127758>>, words |-> {W.translation}, label |-> W.translation]
   , [kind |-> "OR", marker |-> <<128646>>, words |-> {W.travel}, label |-> W.travel]
   , [kind |-> "OR", marker |-> <<128260>>, words |-> {W.version}, label |-> W.version_control]
   , [kind |-> "K", marker |-> <<>>, words |-> {W.framework, W.sdk, W.kit, W.template}, label |-> W.framework]
   , [kind |-> "K", marker |-> <<>>, words |-> {W.utility, W.tool, W.helper, W.gateway, W.proxy, W.bridge}, label |-> W.utility]
   , [kind |-> "K", marker |-> <<>>, words |-> {W.client, W.chat, W.interface}, label |-> W.client]
   , [kind |-> "K", marker |-> <<>>, words |-> {W.tutorial, W.guide, W.example, W.demo}, label |-> W.tutorial]
   , [kind |-> "K", marker |-> <<>>, words |-> {W.community, W.discord, W.reddit}, label |-> W.community]
  >>

\* extract_mcp_servers.py, lines 135-158: the marker tested in emojis_str and the
\* label appended to tech_stack, in source order.
ExtractTechRules ==
  << [marker |-> <<128013>>, label |-> <<80, 121, 116, 104, 111, 110>>]   \* Python
   , [marker |-> <<128199>>, label |-> <<84, 121, 112, 101, 83, 99, 114, 105, 112, 116>>]   \* TypeScript
   , [marker |-> <<127950, 65039>>, label |-> <<71, 111>>]   \* Go
   , [marker |-> <<129408>>, label |-> <<82, 117, 115, 116>>]   \* Rust
   , [marker |-> <<9749>>, label |-> <<74, 97, 118, 97>>]   \* Java
   , [marker |-> <<35, 65039, 8419>>, label |-> <<67, 35>>]   \* C#
   , [marker |-> <<127822>>, label |-> <<105, 79, 83>>]   \* iOS
   , [marker |-> <<129695>>, label |-> <<87, 105, 110, 100, 111, 119, 115>>]   \* Windows
   , [marker |-> <<128039>>, label |-> <<76, 105, 110, 117, 120>>]   \* Linux
   , [marker |-> <<9729, 65039>>, label |-> <<67, 108, 111, 117, 100>>]   \* Cloud
   , [marker |-> <<127968>>, label |-> <<76, 111, 99, 97, 108>>]   \* Local
   , [marker |-> <<127894, 65039>>, label |-> <<79, 102, 102, 105, 99, 105, 97, 108>>]   \* Official
  >>

\* extract_mcp_servers.py, lines 162-177: the substrings searched in
\* description.lower() and the keyword appended, in source order.
ExtractKeywordRules ==
  << [words |-> {W.database}, keyword |-> W.database]
   , [words |-> {W.api}, keyword |-> W.api]
   , [words |-> {W.search}, keyword |-> W.search]
   , [words |-> {W.monitoring}, keyword |-> W.monitoring]
   , [words |-> {W.security}, keyword |-> W.security]
   , [words |-> {W.file}, keyword |-> W.file]
   , [words |-> {W.git}, keyword |-> W.git]
   , [words |-> {W.ai, W.llm}, keyword |-> W.ai]
  >>

\* extract_mcp_servers.py, line 114: the titles of the sections that list no servers.
NonServerSections ==
  { <<87, 104, 97, 116, 32, 105, 115, 32, 77, 67, 80, 63>>   \* What is MCP?
  , <<67, 108, 105, 101, 110, 116, 115>>   \* Clients
  , <<84, 117, 116, 111, 114, 105, 97, 108, 115>>   \* Tutorials
  , <<67, 111, 109, 109, 117, 110, 105, 116, 121>>   \* Community
  , <<76, 101, 103, 101, 110, 100>>   \* Legend
  , <<70, 114, 97, 109, 101, 119, 111, 114, 107, 115>>   \* Frameworks
  , <<85, 116, 105, 108, 105, 116, 105, 101, 115>>   \* Utilities
  , <<84, 105, 112, 115, 32, 97, 110, 100, 32, 84, 114, 105, 99, 107, 115>>   \* Tips and Tricks
  }

\* More words of the sources: those of the tech-stack resolvers and of the
\* signal extractor that W does not have.
V ==
  [ py |-> <<112, 121>>
  , django |-> <<100, 106, 97, 110, 103, 111>>
  , flask |-> <<102, 108, 97, 115, 107>>
  , fastapi |-> <<102, 97, 115, 116, 97, 112, 105>>
  , typescript |-> <<116, 121, 112, 101, 115, 99, 114, 105, 112, 116>>
  , ts |-> <<116, 115>>
  , javascript |-> <<106, 97, 118, 97, 115, 99, 114, 105, 112, 116>>
  , js |-> <<106, 115>>
  , node |-> <<110, 111, 100, 101>>
  , go |-> <<103, 111>>
  , golang |-> <<103, 111, 108, 97, 110, 103>>
  , rust |-> <<114, 117, 115, 116>>
  , java |-> <<106, 97, 118, 97>>
  , kotlin |-> <<107, 111, 116, 108, 105, 110>>
  , spring |-> <<115, 112, 114, 105, 110, 103>>
  , csharp |-> <<99, 115, 104, 97, 114, 112>>
  , dotnet |-> <<100, 111, 116, 110, 101, 116>>
  , net |-> <<110, 101, 116>>
  , fastmcp |-> <<102, 97, 115, 116, 109, 99, 112>>
  , langchain |-> <<108, 97, 110, 103, 99, 104, 97, 105, 110>>
  , chain |-> <<99, 104, 97, 105, 110>>
  , springboot |-> <<115, 112, 114, 105, 110, 103, 98, 111, 111, 116>>
  , quarkus |-> <<113, 117, 97, 114, 107, 117, 115>>
  , sse |-> <<115, 115, 101>>
  , phrase_server_sent_events |-> <<115, 101, 114, 118, 101, 114, 32, 115, 101, 110, 116, 32, 101, 118, 101, 110, 116, 115>>
  , websocket |-> <<119, 101, 98, 115, 111, 99, 107, 101, 116>>
  , ws |-> <<119, 115>>
  , local |-> <<108, 111, 99, 97, 108>>
  , desktop |-> <<100, 101, 115, 107, 116, 111, 112>>
  , docker |-> <<100, 111, 99, 107, 101, 114>>
  , container |-> <<99, 111, 110, 116, 97, 105, 110, 101, 114>>
  , macos |-> <<109, 97, 99, 111, 115>>
  , windows |-> <<119, 105, 110, 100, 111, 119, 115>>
  , linux |-> <<108, 105, 110, 117, 120>>
  , c_sharp |-> <<99, 35>>
  , phrase_mac_os |-> <<109, 97, 99, 32, 111, 115>>
  , apple |-> <<97, 112, 112, 108, 101>>
  , win |-> <<119, 105, 110>>
  , ubuntu |-> <<117, 98, 117, 110, 116, 117>>
  , debian |-> <<100, 101, 98, 105, 97, 110>>
  ]

\* daily.py extract_techstack: one row per if statement, in source order: the
\* words tested in keywords, the marker tested in emojis (<<>>: none) and the
\* label appended.
TechRules ==
  << [words |-> {W.python, V.py, V.django, V.flask, V.fastapi}, marker |-> <<240, 376>>, label |-> W.python]
   , [words |-> {V.typescript, V.ts, V.javascript, V.js, V.node}, marker |-> <<240, 376, 8220, 8225>>, label |-> V.typescript]
   , [words |-> {V.go, V.golang}, marker |-> <<240, 376, 381, 239, 184>>, label |-> V.go]
   , [words |-> {V.rust}, marker |-> <<240, 376, 166, 8364>>, label |-> V.rust]
   , [words |-> {V.java, V.kotlin, V.spring}, marker |-> <<226, 732, 8226>>, label |-> V.java]
   , [words |-> {V.csharp, V.dotnet, V.net}, marker |-> <<35, 239, 184, 226, 402, 163>>, label |-> V.csharp]
   , [words |-> {V.fastmcp, V.fastapi}, marker |-> <<>>, label |-> V.fastmcp]
   , [words |-> {V.langchain, V.chain}, marker |-> <<>>, label |-> V.langchain]
   , [words |-> {V.spring, V.springboot}, marker |-> <<>>, label |-> V.spring]
   , [words |-> {V.quarkus}, marker |-> <<>>, label |-> V.quarkus]
   , [words |-> {V.sse, V.phrase_server_sent_events}, marker |-> <<>>, label |-> V.sse]
   , [words |-> {V.websocket, V.ws}, marker |-> <<>>, label |-> V.websocket]
   , [words |-> {W.http, W.rest, W.api}, marker |-> <<>>, label |-> W.http]
   , [words |-> {W.cloud, W.aws, W.azure, W.gcp}, marker |-> <<226, 732, 239, 184>>, label |-> W.cloud]
   , [words |-> {V.local, V.desktop, W.cli}, marker |-> <<240, 376, 160>>, label |-> V.local]
   , [words |-> {V.docker, V.container}, marker |-> <<>>, label |-> V.docker]
   , [words |-> {W.embedded}, marker |-> <<240, 376, 8220, 376>>, label |-> W.embedded]
   , [words |-> {}, marker |-> <<240, 376, 381>>, label |-> V.macos]
   , [words |-> {}, marker |-> <<240, 376, 170, 376>>, label |-> V.windows]
   , [words |-> {}, marker |-> <<240, 376, 167>>, label |-> V.linux]
  >>

\* manual-insert.py extract_tech_stack: one row per if statement, in source
\* order: the alternatives searched in the text (ignoring case), the marker
\* tested in emojis (<<>>: none) and the label appended.
ManualTechRules ==
  << [words |-> {<<128013>>, W.python}, marker |-> <<128013>>, label |-> W.python]
   , [words |-> {<<128199>>, V.typescript, V.ts}, marker |-> <<128199>>, label |-> V.typescript]
   , [words |-> {<<127950, 65039>>, V.go, V.golang}, marker |-> <<127950, 65039>>, label |-> V.go]
   , [words |-> {<<129408>>, V.rust}, marker |-> <<129408>>, label |-> V.rust]
   , [words |-> {<<9749>>, V.java, V.kotlin}, marker |-> <<9749>>, label |-> V.java]
   , [words |-> {<<35, 65039, 8419>>, V.c_sharp, V.dotnet}, marker |-> <<35, 65039, 8419>>, label |-> V.csharp]
   , [words |-> {<<9729, 65039>>, W.cloud, W.aws, W.azure, W.gcp}, marker |-> <<9729, 65039>>, label |-> W.cloud]
   , [words |-> {<<127968>>, V.local, V.desktop, W.cli}, marker |-> <<127968>>, label |-> V.local]
   , [words |-> {<<128223>>, W.embedded}, marker |-> <<128223>>, label |-> W.embedded]
   , [words |-> {}, marker |-> <<127822>>, label |-> V.macos]
   , [words |-> {}, marker |-> <<129695>>, label |-> V.windows]
   , [words |-> {}, marker |-> <<128039>>, label |-> V.linux]
   , [words |-> {V.sse, V.phrase_server_sent_events}, marker |-> <<>>, label |-> V.sse]
   , [words |-> {V.websocket, V.ws}, marker |-> <<>>, label |-> V.websocket]
   , [words |-> {W.http, W.rest, W.api}, marker |-> <<>>, label |-> W.http]
  >>

\* daily.py generate_emojis: one row per if statement, in source order: the
\* alternatives searched in str(readme_content) (ignoring case) and the marker
\* appended.
EmojiRules ==
  << [words |-> {W.python, V.django, V.flask, V.fastapi}, marker |-> <<240, 376>>]
   , [words |-> {V.typescript, V.ts, V.javascript, V.js, V.node}, marker |-> <<240, 376, 8220, 8225>>]
   , [words |-> {V.go, V.golang}, marker |-> <<240, 376, 381, 239, 184>>]
   , [words |-> {V.rust}, marker |-> <<240, 376, 166, 8364>>]
   , [words |-> {V.java, V.kotlin, V.spring}, marker |-> <<226, 732, 8226>>]
   , [words |-> {V.c_sharp, V.dotnet, V.net}, marker |-> <<35, 239, 184, 226, 402, 163>>]
   , [words |-> {W.cloud, W.aws, W.azure, W.gcp}, marker |-> <<226, 732, 239, 184>>]
   , [words |-> {V.local, V.desktop, W.cli}, marker |-> <<240, 376, 160>>]
   , [words |-> {W.embedded}, marker |-> <<240, 376, 8220, 376>>]
   , [words |-> {V.macos, V.phrase_mac_os, V.apple}, marker |-> <<240, 376, 381>>]
   , [words |-> {V.windows, V.win}, marker |-> <<240, 376, 170, 376>>]
   , [words |-> {V.linux, V.ubuntu, V.debian}, marker |-> <<240, 376, 167>>]
   , [words |-> {W.framework, W.sdk, W.kit, W.template}, marker |-> <<240, 376, 8250, 160, 239, 184>>]
   , [words |-> {W.utility, W.tool, W.helper, W.gateway, W.proxy, W.bridge}, marker |-> <<240, 376, 8221, 167>>]
   , [words |-> {W.client, W.chat, W.interface}, marker |-> <<240, 376, 8217, 172>>]
   , [words |-> {W.tutorial, W.guide, W.example, W.demo}, marker |-> <<240, 376, 8220, 353>>]
   , [words |-> {W.community, W.discord, W.reddit}, marker |-> <<240, 376, 8216, 165>>]
   , [words |-> {W.database, W.sql, W.nosql, W.postgres, W.mysql, W.mongodb}, marker |-> <<240, 376, 8212, 8222, 239, 184>>]
   , [words |-> {W.api, W.rest, W.graphql, W.http}, marker |-> <<240, 376, 8221, 338>>]
   , [words |-> {W.file, W.storage, W.s3, W.cloud}, marker |-> <<240, 376, 8220, 8218>>]
   , [words |-> {W.ai, W.llm, W.gpt, W.claude, W.model}, marker |-> <<240, 376, 164, 8211>>]
   , [words |-> {W.search, W.elastic, W.lucene}, marker |-> <<240, 376, 8221, 381>>]
  >>

-----------------------------------------------------------------------------
\* The classifier of daily.py.

\* any(word in keywords for word in [...]) on a keyword list.
AnyIn(words, keywords) == words \cap keywords # {}

\* The condition of one if statement of daily.py assign_category.
RuleHolds(rule, keywords, emojis) ==
  CASE rule.kind = "E"   -> Contains(rule.marker, emojis)
    [] rule.kind = "AND" -> Contains(rule.marker, emojis) /\ AnyIn(rule.words, keywords)
    [] rule.kind = "OR"  -> Contains(rule.marker, emojis) \/ AnyIn(rule.words, keywords)
    [] rule.kind = "K"   -> AnyIn(rule.words, keywords)

\* The chain with the six protocol statements (mcp .. community) moved in front
\* of the signal statements.
ProtocolFirstOrder ==
  [i \in 1..40 |-> IF i <= 6 THEN 28 + i ELSE IF i <= 34 THEN i - 6 ELSE i]

RECURSIVE FirstSatisfiedProtocolFirst(_, _, _)
FirstSatisfiedProtocolFirst(i, keywords, emojis) ==
  IF i > Len(CategoryRules) THEN 0
  ELSE IF RuleHolds(CategoryRules[ProtocolFirstOrder[i]], keywords, emojis)
       THEN ProtocolFirstOrder[i]
       ELSE FirstSatisfiedProtocolFirst(i + 1, keywords, emojis)

\* The if chain from statement i on: the index of the statement that returns,
\* 0 when control falls through to the final return.
RECURSIVE FirstSatisfied(_, _, _)
FirstSatisfied(i, keywords, emojis) ==
  IF i > Len(CategoryRules) THEN 0
  ELSE IF RuleHolds(CategoryRules[i], keywords, emojis) THEN i
       ELSE FirstSatisfied(i + 1, keywords, emojis)

\* assign_category without its first statement (the early return).
assign_category_no_early_return(keywords, emojis) ==
  LET i == FirstSatisfied(1, keywords, emojis) IN
  [ label     |-> IF i = 0 THEN W.general ELSE CategoryRules[i].label,
    evaluated |-> IF i = 0 THEN Len(CategoryRules) ELSE i ]

\* daily.py assign_category: the label returned and the number of if
\* statements of the chain whose condition was evaluated.
assign_category(keywords, emojis) ==
  IF keywords = {} /\ emojis = <<>>
  THEN [label |-> W.general, evaluated |-> 0]
  ELSE LET i == FirstSatisfied(1, keywords, emojis) IN
       [ label     |-> IF i = 0 THEN W.general ELSE CategoryRules[i].label,
         evaluated |-> IF i = 0 THEN Len(CategoryRules) ELSE i ]

-----------------------------------------------------------------------------
\* The classifier of manual-insert.py.

\* 'w' in text.lower(), and re.search(r'w1|w2|..', text, re.IGNORECASE).
AnyInText(words, text) == \E w \in words : Contains(w, Lower(text))

\* The condition of one if statement of manual-insert.py assign_category.
ManualRuleHolds(rule, text, emojis) ==
  CASE rule.kind = "E"   -> Contains(rule.marker, emojis)
    [] rule.kind = "AND" -> Contains(rule.marker, emojis) /\ AnyInText(rule.words, text)
    [] rule.kind = "OR"  -> Contains(rule.marker, emojis) \/ AnyInText(rule.words, text)
    [] rule.kind = "K"   -> AnyInText(rule.words, text)

RECURSIVE ManualFirstSatisfied(_, _, _)
ManualFirstSatisfied(i, text, emojis) ==
  IF i > Len(ManualCategoryRules) THEN 0
  ELSE IF ManualRuleHolds(ManualCategoryRules[i], text, emojis) THEN i
       ELSE ManualFirstSatisfied(i + 1, text, emojis)

\* manual-insert.py assign_category: there is no early return, every call
\* walks the chain.
manual_assign_category(text, emojis) ==
  LET i == ManualFirstSatisfied(1, text, emojis) IN
  [ label     |-> IF i = 0 THEN W.other ELSE ManualCategoryRules[i].label,
    evaluated |-> IF i = 0 THEN Len(ManualCategoryRules) ELSE i ]

-----------------------------------------------------------------------------
\* The tech-stack resolvers.

\* The condition of one if statement of daily.py extract_techstack.
TechRuleHolds(rule, keywords, emojis) ==
  \/ AnyIn(rule.words, keywords)
  \/ rule.marker # <<>> /\ Contains(rule.marker, emojis)

\* An if/elif chain in place of the independent if statements: nothing is
\* appended after the first satisfied condition.
RECURSIVE TechStackFromFirstOnly(_, _, _)
TechStackFromFirstOnly(i, keywords, emojis) ==
  IF i > Len(TechRules) THEN <<>>
  ELSE IF TechRuleHolds(TechRules[i], keywords, emojis) THEN <<TechRules[i].label>>
  ELSE TechStackFromFirstOnly(i + 1, keywords, emojis)

\* The if statements from statement i on: every satisfied one appends its label.
RECURSIVE TechStackFrom(_, _, _)
TechStackFrom(i, keywords, emojis) ==
  IF i > Len(TechRules) THEN <<>>
  ELSE (IF TechRuleHolds(TechRules[i], keywords, emojis) THEN <<TechRules[i].label>> ELSE <<>>)
         \o TechStackFrom(i + 1, keywords, emojis)

\* daily.py extract_techstack(keywords, all_keywords, emojis); all_keywords is
\* not used.
extract_techstack(keywords, all_keywords, emojis) == TechStackFrom(1, keywords, emojis)

\* The condition of one if statement of manual-insert.py extract_tech_stack.
ManualTechRuleHolds(rule, text, emojis) ==
  \/ AnyInText(rule.words, text)
  \/ rule.marker # <<>> /\ Contains(rule.marker, emojis)

RECURSIVE ManualTechStackFrom(_, _, _)
ManualTechStackFrom(i, text, emojis) ==
  IF i > Len(ManualTechRules) THEN <<>>
  ELSE (IF ManualTechRuleHolds(ManualTechRules[i], text, emojis)
        THEN <<ManualTechRules[i].label>> ELSE <<>>)
         \o ManualTechStackFrom(i + 1, text, emojis)

\* manual-insert.py extract_tech_stack(text, emojis).
extract_tech_stack(text, emojis) == ManualTechStackFrom(1, text, emojis)

-----------------------------------------------------------------------------
\* Inputs of the classifiers.

\* The sets of at most k elements of S.
RECURSIVE SubsetsUpTo(_, _)
SubsetsUpTo(S, k) ==
  IF k = 0 THEN {{}}
  ELSE LET P == SubsetsUpTo(S, k - 1) IN P \cup {s \cup {x} : s \in P, x \in S}

\* The sequences of at most k elements of S.
SeqsUpTo(S, k) == UNION {[1..n -> S] : n \in 0..k}

\* Markers that generate_emojis emits and assign_category does not test:
\* the python marker (line 182) and the utility marker (line 214).
PythonMarker == <<240, 376>>
UtilityMarker == <<240, 376, 8221, 167>>

KeywordVocab ==
  { W.a, W.python, W.gateway, W.mcp, W.database, W.sql, W.browser, W.cloud,
    W.data, W.platform, W.file, W.system, W.monitoring, W.search, W.framework,
    W.chat }

\* The python and utility markers, and the markers of the aggregator,
\* browser/file, cloud, database, data-platform/monitoring and knowledge
\* statements.
MarkerVocab ==
  { PythonMarker, UtilityMarker } \cup
  { CategoryRules[i].marker : i \in {1, 3, 4, 10, 11, 18} }

\* The scenario "A Python MCP database gateway": its keywords, and the marker
\* string generate_emojis joins for the python, utility and database markers.
ScenarioKeywords == {W.a, W.python, W.mcp, W.database, W.gateway}
ScenarioEmojis == Join(Space, <<PythonMarker, UtilityMarker, CategoryRules[10].marker>>)

KeywordLists == SubsetsUpTo(KeywordVocab, MaxKeywords) \cup {ScenarioKeywords}

MarkerStrings ==
  {Join(Space, ms) : ms \in SeqsUpTo(MarkerVocab, MaxMarkers)} \cup {ScenarioEmojis}

\* First letter upper-cased, and all letters upper-cased.
Cap(s) == [i \in 1..Len(s) |-> IF i = 1 THEN s[i] - 32 ELSE s[i]]
Upper(s) == [i \in 1..Len(s) |-> s[i] - 32]

TextVocab ==
  { Cap(W.python), Upper(W.mcp), W.database, W.gateway, W.file,
    W.tool \o W.kit, W.data, W.science }

ScenarioText ==
  Join(Space, <<Cap(W.a), Cap(W.python), Upper(W.mcp), W.database, W.gateway>>)

Texts == {Join(Space, ws) : ws \in SeqsUpTo(TextVocab, MaxWords)} \cup {ScenarioText}

ManualMarkerVocab ==
  { ManualCategoryRules[i].marker : i \in {1, 3, 4, 10, 11, 18} }

\* extract_repo_info joins the markers of an entry as the document has them,
\* separated by spaces.
ManualMarkerStrings ==
  {Join(Space, ms) : ms \in SeqsUpTo(ManualMarkerVocab, MaxMarkers)}

-----------------------------------------------------------------------------
\* What a merge gave: nothing yet, the rows returned, or an exception.
NotCalled == [status |-> "none", rows |-> <<>>]
Returned(rows) == [status |-> "returned", rows |-> rows]
Raised == [status |-> "raised", rows |-> <<>>]

\* No request was made yet for the current keyword.
NoResponse == [status |-> "none", items |-> <<>>, next |-> FALSE]

\* What save_to_csv wrote: nothing yet, or the rows.
NoFile == [exists |-> FALSE, rows |-> <<>>]
File(rows) == [exists |-> TRUE, rows |-> rows]

\* The days of the model, and the data directory with no artifact.
Days == 1..MaxDays
NoFiles == [d \in Days |-> NoFile]

\* The classifiers applied to one input each.
InitClassify ==
  /\ prog = "classify"
  /\ old = <<>> /\ new = <<>> /\ prior = <<>> /\ harvest = <<>>
  /\ merged = NotCalled /\ written = NoFile
  /\ out_category = <<>> /\ out_evaluated = 0
  /\ in_readme = <<>> /\ out_list = <<>>
  /\ files = NoFiles /\ today = 1
  /\ search_keywords = <<>> /\ response = NoResponse /\ page = 0
  /\ all_repo_data_for_keyword = <<>> /\ failed = {}
  /\ \/ /\ pc = "assign_category"
        /\ in_keywords \in KeywordLists
        /\ in_emojis \in MarkerStrings
        /\ in_text = <<>>
     \/ /\ pc = "manual_assign_category"
        /\ in_keywords = {}
        /\ in_emojis \in ManualMarkerStrings
        /\ in_text \in Texts

AssignCategoryCall ==
  /\ pc = "assign_category"
  /\ LET r == assign_category(in_keywords, in_emojis) IN
       /\ out_category' = r.label
       /\ out_evaluated' = r.evaluated
  /\ pc' = "returned"
  /\ UNCHANGED <<prog, old, new, prior, harvest, merged, written, in_keywords, in_emojis, in_text, in_readme, out_list, files, today,
                 search_keywords, response, page, all_repo_data_for_keyword, failed>>

ManualAssignCategoryCall ==
  /\ pc = "manual_assign_category"
  /\ LET r == manual_assign_category(in_text, in_emojis) IN
       /\ out_category' = r.label
       /\ out_evaluated' = r.evaluated
  /\ pc' = "manual_returned"
  /\ UNCHANGED <<prog, old, new, prior, harvest, merged, written, in_keywords, in_emojis, in_text, in_readme, out_list, files, today,
                 search_keywords, response, page, all_repo_data_for_keyword, failed>>

NextClassify == AssignCategoryCall \/ ManualAssignCategoryCall

SpecClassify == InitClassify /\ [][NextClassify]_vars

-----------------------------------------------------------------------------
\* Rows.
\*
\* A row is a record with the fields of the artifact: name, description,
\* html_url, stars, forks, keywords, category, techstack, emojis. Strings are
\* sequences of code points. keywords and techstack hold either a Python list
\* of strings or one string; PyList and PyStr tell the two apart. stars and
\* forks are the numbers (a row read from an artifact holds their decimal text).

PyList(l) == [type |-> "list", v |-> l]
PyStr(s) == [type |-> "str", v |-> s]

Range(s) == {s[i] : i \in DOMAIN s}

\* The names of a sequence of rows.
NamesOf(rows) == {rows[i].name : i \in DOMAIN rows}

\* A Python dict from name to row, as the sequence of its values in insertion
\* order: d[name] = row.
DictSet(d, row) ==
  IF \E i \in DOMAIN d : d[i].name = row.name
  THEN [i \in DOMAIN d |-> IF d[i].name = row.name THEN row ELSE d[i]]
  ELSE Append(d, row)

\* d[name], for a name that is a key of d.
DictGet(d, name) == d[CHOOSE i \in DOMAIN d : d[i].name = name]

\* a.update(b) on two rows.
DictUpdate(a, b) ==
  [k \in (DOMAIN a) \cup (DOMAIN b) |-> IF k \in DOMAIN b THEN b[k] ELSE a[k]]

-----------------------------------------------------------------------------
\* extract_mcp_servers.py: harvesting the listing document.
\*
\* The document is given as the result of the two regular-expression splits:
\* a sequence of sections, each with its title line and the (name, url,
\* description) triples of its "- [name](url) description" entries.

\* \w and \s on the code points of the model's texts: ASCII letters, digits and
\* the underscore are word characters; the markers and the punctuation are not.
IsWordChar(c) ==
  \/ (c >= 48 /\ c <= 57) \/ (c >= 65 /\ c <= 90) \/ (c >= 97 /\ c <= 122) \/ c = 95
IsSpaceChar(c) == c = 32 \/ (c >= 9 /\ c <= 13)
IsSymbolChar(c) == ~IsWordChar(c) /\ ~IsSpaceChar(c)
IsNotSymbolChar(c) == ~IsSymbolChar(c)

\* str.strip().
RECURSIVE LStrip(_)
LStrip(s) == IF s # <<>> /\ IsSpaceChar(Head(s)) THEN LStrip(Tail(s)) ELSE s
RECURSIVE RStrip(_)
RStrip(s) ==
  IF s # <<>> /\ IsSpaceChar(s[Len(s)]) THEN RStrip(SubSeq(s, 1, Len(s) - 1)) ELSE s
Strip(s) == RStrip(LStrip(s))

\* ", "
CommaSpace == <<44, 32>>

\* The labels of the satisfied tech-stack tests, in source order (lines 134-158).
ExtractTechStack(emojis_str) ==
  LET Hit(i) == Contains(ExtractTechRules[i].marker, emojis_str)
      RECURSIVE Collect(_)
      Collect(i) ==
        IF i > Len(ExtractTechRules) THEN <<>>
        ELSE (IF Hit(i) THEN <<ExtractTechRules[i].label>> ELSE <<>>) \o Collect(i + 1)
  IN Collect(1)

\* The keywords of the satisfied description tests, in source order (lines 161-177).
ExtractDocKeywords(description) ==
  LET Hit(i) == \E w \in ExtractKeywordRules[i].words : Contains(w, Lower(description))
      RECURSIVE Collect(_)
      Collect(i) ==
        IF i > Len(ExtractKeywordRules) THEN <<>>
        ELSE (IF Hit(i) THEN <<ExtractKeywordRules[i].keyword>> ELSE <<>>) \o Collect(i + 1)
  IN Collect(1)

\* The text before the first "<" of a title, what ^([^<]+) captures; <<>> when
\* the title starts with "<" (no match).
RECURSIVE BeforeAngle(_)
BeforeAngle(title) ==
  IF title = <<>> \/ Head(title) = 60 THEN <<>>
  ELSE <<Head(title)>> \o BeforeAngle(Tail(title))

\* Lines 125-191: the row built for one entry of a section.
ServerInfo(entry, current_category) ==
  LET emojis_str == SelectSeq(entry.description, IsSymbolChar)
      clean_description == Strip(SelectSeq(entry.description, IsNotSymbolChar))
  IN [ name        |-> entry.name,
       description |-> clean_description,
       html_url    |-> entry.url,
       stars       |-> 0,
       forks       |-> 0,
       category    |-> current_category,
       techstack   |-> PyStr(Join(CommaSpace, ExtractTechStack(emojis_str))),
       keywords    |-> PyStr(Join(CommaSpace, ExtractDocKeywords(entry.description))),
       emojis      |-> emojis_str ]

\* Lines 102-191: the loop over the sections from section i on, with the
\* category carried from the sections before.
RECURSIVE ExtractSections(_, _, _)
ExtractSections(sections, i, current_category) ==
  IF i > Len(sections) THEN <<>>
  ELSE
    LET title == Strip(sections[i].title) IN
    IF title \in NonServerSections
    THEN ExtractSections(sections, i + 1, current_category)
    ELSE
      LET head == BeforeAngle(title)
          category == IF head # <<>> THEN Strip(head) ELSE current_category
      IN [j \in 1..Len(sections[i].entries) |-> ServerInfo(sections[i].entries[j], category)]
           \o ExtractSections(sections, i + 1, category)

extract_mcp_servers(sections) == ExtractSections(sections, 1, <<>>)

-----------------------------------------------------------------------------
\* extract_mcp_servers.py merge_servers.

\* Line 207: the dict of the old rows by name.
RECURSIVE DictOf(_)
DictOf(rows) ==
  IF rows = <<>> THEN <<>>
  ELSE DictSet(DictOf(SubSeq(rows, 1, Len(rows) - 1)), rows[Len(rows)])

\* Lines 210-217, for the new rows from the i-th on.
RECURSIVE MergeServersFrom(_, _, _)
MergeServersFrom(old_servers_dict, new_servers, i) ==
  IF i > Len(new_servers) THEN old_servers_dict
  ELSE
    LET new_server == new_servers[i]
        name == new_server.name
        d == IF name \in NamesOf(old_servers_dict)
             THEN DictSet(old_servers_dict,
                          DictUpdate(DictGet(old_servers_dict, name), new_server))
             ELSE DictSet(old_servers_dict, new_server)
    IN MergeServersFrom(d, new_servers, i + 1)

\* The list returned (line 220).
merge_servers(old_servers, new_servers) ==
  MergeServersFrom(DictOf(old_servers), new_servers, 1)

\* The rows of old_servers after the call: the dict holds the row objects of
\* old_servers themselves, so update() changes them in place.
OldServersAfter(old_servers, new_servers) ==
  LET result == merge_servers(old_servers, new_servers) IN
  [i \in DOMAIN old_servers |-> DictGet(result, old_servers[i].name)]

\* The rows of new_servers after the call: a row inserted for a new name is the
\* object of new_servers itself, and a later row of the same name updates it.
NewServersAfter(old_servers, new_servers) ==
  LET result == merge_servers(old_servers, new_servers)
      Inserted(j) ==
        /\ new_servers[j].name \notin NamesOf(old_servers)
        /\ \A k \in 1..(j - 1) : new_servers[k].name # new_servers[j].name
  IN [j \in DOMAIN new_servers |->
        IF Inserted(j) THEN DictGet(result, new_servers[j].name) ELSE new_servers[j]]

-----------------------------------------------------------------------------
\* daily.py merge_repos.

\* def generate_emojis(repo_data, readme_content): two required parameters.
generate_emojis_params == 2
\* generate_emojis(repo) in merge_repos: one argument.
merge_repos_emojis_args == 1

\* A sequence with the elements of a finite set, each once.
RECURSIVE SeqOfSet(_)
SeqOfSet(S) ==
  IF S = {} THEN <<>>
  ELSE LET x == CHOOSE y \in S : TRUE IN <<x>> \o SeqOfSet(S \ {x})

\* "Other", the label line 557 compares the categories with.
OtherLabel == <<79, 116, 104, 101, 114>>

\* Lines 542-566: update the row of the same name, or add the record.
\* list + list and max() of the counters; a str where a list is expected raises.
StoreRepo(merged_repos, repo) ==
  IF repo.name \in NamesOf(merged_repos)
  THEN
    LET old_repo == DictGet(merged_repos, repo.name) IN
    IF old_repo.keywords.type # "list" \/ old_repo.techstack.type # "list"
    THEN Raised
    ELSE Returned(DictSet(merged_repos,
           [old_repo EXCEPT
              !.keywords  = PyList(SeqOfSet(Range(old_repo.keywords.v) \cup Range(repo.keywords.v))),
              !.stars     = IF old_repo.stars >= repo.stars THEN old_repo.stars ELSE repo.stars,
              !.forks     = IF old_repo.forks >= repo.forks THEN old_repo.forks ELSE repo.forks,
              !.emojis    = SeqOfSet(Range(old_repo.emojis) \cup Range(repo.emojis)),
              !.category  = IF old_repo.category = OtherLabel /\ repo.category # OtherLabel
                            THEN repo.category ELSE old_repo.category,
              !.techstack = PyList(SeqOfSet(Range(old_repo.techstack.v) \cup Range(repo.techstack.v)))]))
  ELSE Returned(DictSet(merged_repos, repo))

\* The body of the loop for one record (lines 526-566). The call of line 529
\* passes one argument to a function of two required parameters and raises
\* TypeError; line 533 reads repo["keywords"], a key the records of
\* search_github_repos do not have. No record gets past these statements.
MergeReposRecord(merged_repos, repo) ==
  IF merge_repos_emojis_args # generate_emojis_params THEN Raised
  ELSE IF "keywords" \notin DOMAIN repo THEN Raised
  ELSE StoreRepo(merged_repos, repo)

\* The records of new_repos in the order the two loops visit them (lines 524-525).
RECURSIVE RecordsOf(_)
RecordsOf(new_repos) ==
  IF new_repos = <<>> THEN <<>>
  ELSE Head(new_repos).repos \o RecordsOf(Tail(new_repos))

\* The loops from the i-th record on; an exception ends the call.
RECURSIVE MergeReposFrom(_, _, _)
MergeReposFrom(merged_repos, records, i) ==
  IF i > Len(records) THEN Returned(merged_repos)
  ELSE LET r == MergeReposRecord(merged_repos, records[i]) IN
       IF r.status = "raised" THEN Raised
       ELSE MergeReposFrom(r.rows, records, i + 1)

\* merge_repos: merged_repos starts as a copy of old_repos (line 521).
merge_repos(old_repos, new_repos) == MergeReposFrom(old_repos, RecordsOf(new_repos), 1)

\* ', '.join(x) of daily.py save_to_csv (lines 600-601): on a list its items are
\* joined; on a string its characters are.
JoinField(x) ==
  IF x.type = "list" THEN PyStr(Join(CommaSpace, x.v))
  ELSE PyStr(Join(CommaSpace, [i \in 1..Len(x.v) |-> <<x.v[i]>>]))

\* The rows daily.py save_to_csv writes (lines 597-602).
SaveRepoRows(repos) ==
  [i \in DOMAIN repos |->
     [repos[i] EXCEPT !.keywords = JoinField(@), !.techstack = JoinField(@)]]

\* repr() of a list of strings: ['a', 'b'].
ListRepr(l) ==
  <<91>> \o Join(CommaSpace, [i \in DOMAIN l |-> <<39>> \o l[i] \o <<39>>]) \o <<93>>

\* The cell csv.DictWriter writes for a keywords or techstack value: str(value).
CsvCell(x) == IF x.type = "list" THEN PyStr(ListRepr(x.v)) ELSE x

\* The items of the artifact written from the rows handed to the csv writer.
CsvRows(rows) ==
  [i \in DOMAIN rows |->
     [rows[i] EXCEPT !.keywords = CsvCell(@), !.techstack = CsvCell(@)]]

-----------------------------------------------------------------------------
\* Inputs of the runs.

\* The names of the previous artifact, and the name the harvests return.
Names == {W.foo, W.bar}
HarvestNames == {W.bar}

\* "old entry"
OldDescription == Join(Space, <<W.old, W.entry>>)
\* A url of the previous artifact, and the url of the harvested entries.
OldUrl == <<117, 49>>
NewUrl == <<117, 50>>

\* The marker string of the rows of the previous artifact: the database marker
\* as generate_emojis of daily.py writes it (line 222).
PriorEmojis == EmojiRules[18].marker

\* The rows read_previous_data returns for an artifact: a non-empty keywords
\* or techstack column comes back as a list, an empty one as the empty string.
\* A row is either unclassified (no keywords, "general") or a database entry.
PriorRows ==
  { [ name        |-> n,
      description |-> OldDescription,
      html_url    |-> OldUrl,
      stars       |-> 42,
      forks       |-> 7,
      keywords    |-> k.keywords,
      category    |-> k.category,
      techstack   |-> PyList(<<W.python>>),
      emojis      |-> PriorEmojis ] :
    n \in Names,
    k \in { [keywords |-> PyStr(<<>>), category |-> W.general],
            [keywords |-> PyList(<<W.sql>>), category |-> W.database] } }

\* The artifacts: at most MaxPrior rows, no name twice (so never more rows
\* than there are Names).
PriorSnapshots ==
  {rows \in SeqsUpTo(PriorRows, MaxPrior) :
     \A i, j \in DOMAIN rows : rows[i].name = rows[j].name => i = j}

\* Section titles of the listing document: two server sections, one section
\* that lists no servers, and a title that starts with an anchor.
DatabasesTitle == <<68, 97, 116, 97, 98, 97, 115, 101, 115>>
LegendTitle == <<76, 101, 103, 101, 110, 100>>
AnchorTitle == <<60, 97, 62>> \o W.search
Titles == {DatabasesTitle, W.general, LegendTitle, AnchorTitle}

\* Descriptions of the entries of the document: none, and the python marker
\* followed by "A database api.".
DocDescriptions ==
  { <<>>,
    <<128013>> \o Space \o Join(Space, <<Cap(W.a), W.database, W.api>>) \o <<46>> }

DocEntries == [name : HarvestNames, url : {NewUrl}, description : DocDescriptions]

Sections == [title : Titles, entries : SeqsUpTo(DocEntries, MaxEntries)]

Documents == SeqsUpTo(Sections, MaxSections)

\* What extract_mcp_servers returns on these documents.
Harvests == {extract_mcp_servers(doc) : doc \in Documents}

\* The records search_github_repos builds (line 141): RepoData without the
\* keywords, category and techstack keys.
RepoRecords ==
  [ name        : HarvestNames,
    description : {<<>>, Join(Space, <<Cap(W.a), W.database, W.api>>)},
    html_url    : {NewUrl},
    stars       : {50},
    forks       : {9},
    readme      : {<<>>},
    emojis      : {<<>>} ]

\* The search terms, in the order of the keywords list.
SearchTerms == <<Join(Space, <<W.mcp, W.database>>), Join(Space, <<W.mcp, W.api>>), Join(Space, <<W.mcp, W.search>>)>>

\* The results of search_github_repos for the first n terms.
SearchResults ==
  UNION { {[i \in 1..n |-> [keyword |-> SearchTerms[i], repos |-> lists[i]]] :
             lists \in [1..n -> SeqsUpTo(RepoRecords, MaxRepos)]} :
          n \in 0..MaxTerms }

-----------------------------------------------------------------------------
\* The runs of extract_mcp_servers.py and of daily.py, from the point where
\* main has read the previous artifact.

Init ==
  /\ prog \in {"extract", "daily"}
  /\ pc = "harvest"
  /\ old \in PriorSnapshots
  /\ prior = <<>>
  /\ new = <<>>
  /\ harvest = <<>>
  /\ merged = NotCalled
  /\ written = NoFile
  /\ in_keywords = {} /\ in_emojis = <<>> /\ in_text = <<>>
  /\ out_category = <<>> /\ out_evaluated = 0
  /\ in_readme = <<>> /\ out_list = <<>>
  /\ files = NoFiles /\ today = 1
  /\ search_keywords = <<>> /\ response = NoResponse /\ page = 0
  /\ all_repo_data_for_keyword = <<>> /\ failed = {}

\* extract_mcp_servers.py main, lines 259-265.
ExtractHarvest ==
  /\ prog = "extract" /\ pc = "harvest"
  /\ new' \in Harvests
  /\ pc' = "merge"
  /\ UNCHANGED <<prog, old, prior, harvest, merged, written,
                 in_keywords, in_emojis, in_text, out_category, out_evaluated, in_readme, out_list, files, today,
                 search_keywords, response, page, all_repo_data_for_keyword, failed>>

\* extract_mcp_servers.py main, line 269.
ExtractMerge ==
  /\ prog = "extract" /\ pc = "merge"
  /\ prior' = old
  /\ harvest' = new
  /\ merged' = Returned(merge_servers(old, new))
  /\ old' = OldServersAfter(old, new)
  /\ new' = NewServersAfter(old, new)
  /\ pc' = "save"
  /\ UNCHANGED <<prog, written, in_keywords, in_emojis, in_text, out_category, out_evaluated, in_readme, out_list, files, today,
                 search_keywords, response, page, all_repo_data_for_keyword, failed>>

\* extract_mcp_servers.py main, line 272: writerows(servers).
ExtractSave ==
  /\ prog = "extract" /\ pc = "save"
  /\ written' = File(merged.rows)
  /\ files' = [files EXCEPT ![today] = File(CsvRows(merged.rows))]
  /\ pc' = "done"
  /\ UNCHANGED <<prog, old, new, prior, harvest, merged,
                 in_keywords, in_emojis, in_text, out_category, out_evaluated, in_readme, out_list, today,
                 search_keywords, response, page, all_repo_data_for_keyword, failed>>

\* daily.py main, line 620.
DailySearch ==
  /\ prog = "daily" /\ pc = "harvest"
  /\ new' \in SearchResults
  /\ pc' = "merge"
  /\ UNCHANGED <<prog, old, prior, harvest, merged, written,
                 in_keywords, in_emojis, in_text, out_category, out_evaluated, in_readme, out_list, files, today,
                 search_keywords, response, page, all_repo_data_for_keyword, failed>>

\* daily.py main, line 624, when merge_repos returns.
DailyMergeReturns ==
  /\ prog = "daily" /\ pc = "merge"
  /\ merge_repos(old, new).status = "returned"
  /\ prior' = old
  /\ harvest' = new
  /\ merged' = merge_repos(old, new)
  /\ pc' = "save"
  /\ UNCHANGED <<prog, old, new, written,
                 in_keywords, in_emojis, in_text, out_category, out_evaluated, in_readme, out_list, files, today,
                 search_keywords, response, page, all_repo_data_for_keyword, failed>>

\* daily.py main, line 624, when merge_repos raises: main does not catch the
\* exception, the run ends and nothing is written.
DailyMergeRaises ==
  /\ prog = "daily" /\ pc = "merge"
  /\ merge_repos(old, new).status = "raised"
  /\ prior' = old
  /\ harvest' = new
  /\ merged' = Raised
  /\ pc' = "failed"
  /\ UNCHANGED <<prog, old, new, written,
                 in_keywords, in_emojis, in_text, out_category, out_evaluated, in_readme, out_list, files, today,
                 search_keywords, response, page, all_repo_data_for_keyword, failed>>

\* daily.py main, line 627.
DailySave ==
  /\ prog = "daily" /\ pc = "save"
  /\ written' = File(SaveRepoRows(merged.rows))
  /\ files' = [files EXCEPT ![today] = File(CsvRows(SaveRepoRows(merged.rows)))]
  /\ pc' = "done"
  /\ UNCHANGED <<prog, old, new, prior, harvest, merged,
                 in_keywords, in_emojis, in_text, out_category, out_evaluated, in_readme, out_list, today,
                 search_keywords, response, page, all_repo_data_for_keyword, failed>>

Next ==
  \/ ExtractHarvest
  \/ ExtractMerge
  \/ ExtractSave
  \/ DailySearch
  \/ DailyMergeReturns
  \/ DailyMergeRaises
  \/ DailySave

Spec == Init /\ [][Next]_vars

-----------------------------------------------------------------------------
\* Properties of the merges (under Spec).

\* The rows of the harvest the merge was called with: the rows of new_servers,
\* or the records of all the lists of new_repos.
HarvestRows == IF prog = "daily" THEN RecordsOf(harvest) ELSE harvest

\* The harvested rows of one name, in batch order.
Incoming(n) == SelectSeq(HarvestRows, LAMBDA r : r.name = n)

MergeCalled == merged.status # "none"
MergeReturned == merged.status = "returned"

\* The names the prior snapshot and the harvest share.
InBoth == NamesOf(prior) \cap NamesOf(HarvestRows)

\* str.split(",").
RECURSIVE SplitComma(_)
SplitComma(s) ==
  IF \E i \in DOMAIN s : s[i] = 44
  THEN LET i == CHOOSE k \in DOMAIN s : s[k] = 44 /\ \A m \in 1..(k - 1) : s[m] # 44
       IN <<SubSeq(s, 1, i - 1)>> \o SplitComma(SubSeq(s, i + 1, Len(s)))
  ELSE <<s>>

\* The keywords (or tech-stack labels) a field stands for: the items of a list,
\* the comma-separated items of a string; surrounding blanks do not count.
TokenSet(x) ==
  IF x.type = "list"
  THEN {Strip(t) : t \in Range(x.v)} \ {<<>>}
  ELSE {Strip(t) : t \in Range(SplitComma(x.v))} \ {<<>>}

\* The larger of two numbers.
Max(a, b) == IF a >= b THEN a ELSE b

\* C1: every name of the prior snapshot that is not in the harvest is in the
\* merged output with all its fields as before, no prior name is missing from
\* the output, and merging an empty harvest returns the prior snapshot.
C1_AbsentNamesCarriedForward ==
  MergeCalled =>
    /\ \A n \in NamesOf(prior) \ NamesOf(HarvestRows) :
         /\ MergeReturned
         /\ n \in NamesOf(merged.rows)
         /\ DictGet(merged.rows, n) = DictGet(prior, n)
    /\ \A n \in NamesOf(prior) : MergeReturned /\ n \in NamesOf(merged.rows)
    /\ HarvestRows = <<>> => merged = Returned(prior)

\* C2: in a merged snapshot, for every name present in the prior snapshot and
\* in the harvest, stars and forks are at least the prior value and at least
\* every incoming value.
C2_CountersNeverDecrease ==
  MergeReturned =>
    \A n \in InBoth :
      \A k \in DOMAIN Incoming(n) :
        /\ DictGet(merged.rows, n).stars >= Max(DictGet(prior, n).stars, Incoming(n)[k].stars)
        /\ DictGet(merged.rows, n).forks >= Max(DictGet(prior, n).forks, Incoming(n)[k].forks)

\* C3: in a merged snapshot, for every name present in the prior snapshot and
\* in the harvest, the keywords contain the prior and the incoming keywords,
\* and the techstack the prior and the incoming techstack labels.
C3_SetsAreUnions ==
  MergeReturned =>
    \A n \in InBoth :
      \A k \in DOMAIN Incoming(n) :
        /\ TokenSet(DictGet(prior, n).keywords) \cup TokenSet(Incoming(n)[k].keywords)
             \subseteq TokenSet(DictGet(merged.rows, n).keywords)
        /\ TokenSet(DictGet(prior, n).techstack) \cup TokenSet(Incoming(n)[k].techstack)
             \subseteq TokenSet(DictGet(merged.rows, n).techstack)

\* C4: in a merged snapshot, a prior "general" with an incoming non-default
\* category gives the incoming category, and a prior non-default category with
\* an incoming "general" stays.
C4_DefaultNeverOverwritesSpecific ==
  MergeReturned =>
    \A n \in InBoth :
      Len(Incoming(n)) = 1 =>
        LET before == DictGet(prior, n).category
            incoming == Incoming(n)[1].category
            after == DictGet(merged.rows, n).category
        IN /\ (before = W.general /\ incoming # W.general) => after = incoming
           /\ (before # W.general /\ incoming = W.general) => after = before

\* C5: in a merged snapshot, for every name present in the prior snapshot and
\* in the harvest, description and url are the incoming value when that is
\* non-empty and the prior value when it is empty.
C5_FreshestNonEmptyWins ==
  MergeReturned =>
    \A n \in InBoth :
      Len(Incoming(n)) = 1 =>
        LET before == DictGet(prior, n)
            incoming == Incoming(n)[1]
            after == DictGet(merged.rows, n)
        IN /\ after.description =
                (IF incoming.description # <<>> THEN incoming.description ELSE before.description)
           /\ after.html_url =
                (IF incoming.html_url # <<>> THEN incoming.html_url ELSE before.html_url)

\* C6: in a merged snapshot, a name harvested more than once in one batch has
\* exactly one entry, with the description and url of the last such record and
\* with keywords and techstack that contain those of all of them.
C6_DuplicatesLastWinsSetsUnion ==
  MergeReturned =>
    \A n \in NamesOf(HarvestRows) :
      Len(Incoming(n)) >= 2 =>
        LET last == Incoming(n)[Len(Incoming(n))]
            after == DictGet(merged.rows, n)
        IN /\ Cardinality({i \in DOMAIN merged.rows : merged.rows[i].name = n}) = 1
           /\ after.description = last.description
           /\ after.html_url = last.html_url
           /\ \A k \in DOMAIN Incoming(n) :
                /\ TokenSet(Incoming(n)[k].keywords) \subseteq TokenSet(after.keywords)
                /\ TokenSet(Incoming(n)[k].techstack) \subseteq TokenSet(after.techstack)

\* C7: merge_repos returns for every harvest of search_github_repos, and every
\* harvested name that is not in the prior snapshot is in the output with the
\* description, url, stars and forks of its record.
C7_NewNamesInsertedAsIs ==
  (prog = "daily" /\ MergeCalled) =>
    /\ MergeReturned
    /\ \A n \in NamesOf(HarvestRows) \ NamesOf(prior) :
         /\ n \in NamesOf(merged.rows)
         /\ \E k \in DOMAIN Incoming(n) :
              LET r == Incoming(n)[k]
                  after == DictGet(merged.rows, n)
              IN /\ after.description = r.description
                 /\ after.html_url = r.html_url
                 /\ after.stars = r.stars
                 /\ after.forks = r.forks

-----------------------------------------------------------------------------
\* Properties of the classifiers (under SpecClassify).

\* The labels the two chains can return.
CategoryLabels ==
  {CategoryRules[i].label : i \in 1..Len(CategoryRules)} \cup {W.general}
ManualCategoryLabels ==
  {ManualCategoryRules[i].label : i \in 1..Len(ManualCategoryRules)} \cup {W.other}

\* The tiers the specification names.
ProtocolLabels == {W.mcp, W.framework, W.utility, W.client, W.tutorial, W.community}
IntegrationLabels == {W.database, W.api, W.storage, W.ai, W.messaging, W.search}

\* Statement i of a chain belongs to the signal tier (it tests a marker), to the
\* protocol tier or to the integration tier (keyword-only statements).
IsSignalRule(rule) == rule.kind # "K"
IsProtocolRule(rule) == rule.kind = "K" /\ rule.label \in ProtocolLabels
IsIntegrationRule(rule) ==
  rule.kind = "K" /\ rule.label \in IntegrationLabels /\ rule.label \notin ProtocolLabels

\* The satisfied statements of each chain for the current input.
HoldingRules ==
  {i \in 1..Len(CategoryRules) : RuleHolds(CategoryRules[i], in_keywords, in_emojis)}
ManualHoldingRules ==
  {i \in 1..Len(ManualCategoryRules) :
     ManualRuleHolds(ManualCategoryRules[i], in_text, in_emojis)}

\* The tiers of a chain come in the order signal, protocol, integration.
TiersInOrder(rules) ==
  \A i, j \in 1..Len(rules) :
    /\ IsSignalRule(rules[i]) \/ IsProtocolRule(rules[i]) \/ IsIntegrationRule(rules[i])
    /\ (IsSignalRule(rules[i]) /\ ~IsSignalRule(rules[j])) => i < j
    /\ (IsProtocolRule(rules[i]) /\ IsIntegrationRule(rules[j])) => i < j

CategoryTiersInOrder == TiersInOrder(CategoryRules)
ManualCategoryTiersInOrder == TiersInOrder(ManualCategoryRules)

\* C8: assign_category returns the label of the earliest satisfied predicate of
\* its fixed order (never the label of a later one while an earlier one is
\* satisfied); the signal predicates come before the protocol predicates, which
\* come before the integration predicates; the keywords
\* {a, python, mcp, database, gateway} are classified "database".
C8_FirstMatchInFixedOrder ==
  /\ pc = "returned" =>
       LET H == HoldingRules IN
       /\ \A i \in H : (\A k \in H : i <= k) => out_category = CategoryRules[i].label
       /\ (\E i \in H : IsSignalRule(CategoryRules[i])) =>
            \E i \in H : IsSignalRule(CategoryRules[i]) /\ out_category = CategoryRules[i].label
       /\ ((\A i \in H : ~IsSignalRule(CategoryRules[i]))
             /\ (\E i \in H : IsProtocolRule(CategoryRules[i]))) =>
            out_category \in ProtocolLabels
       /\ CategoryTiersInOrder
       /\ (in_keywords = ScenarioKeywords /\ in_emojis \in {<<>>, ScenarioEmojis}) =>
            out_category = W.database
  /\ pc = "manual_returned" =>
       LET H == ManualHoldingRules IN
       /\ \A i \in H : (\A k \in H : i <= k) => out_category = ManualCategoryRules[i].label
       /\ ManualCategoryTiersInOrder
       /\ (in_text = ScenarioText /\ in_emojis = <<>>) => out_category = W.database

\* The scenario has been classified: the database, mcp and utility predicates
\* are all satisfied and the earliest one gave the label.
C8_Witness ==
  /\ pc = "returned"
  /\ in_keywords = ScenarioKeywords
  /\ in_emojis = ScenarioEmojis
  /\ {10, 29, 31, 35} \subseteq HoldingRules
  /\ out_category = W.database

\* C9 (as claimed): every call returns exactly one label of the label set;
\* the default label when no predicate is satisfied; and with empty keywords
\* (text) and empty markers the default label without evaluating a predicate.
C9_TotalWithShortcut ==
  /\ pc = "returned" =>
       /\ out_category \in CategoryLabels
       /\ HoldingRules = {} => out_category = W.general
       /\ (in_keywords = {} /\ in_emojis = <<>>) =>
            (out_category = W.general /\ out_evaluated = 0)
  /\ pc = "manual_returned" =>
       /\ out_category \in ManualCategoryLabels
       /\ ManualHoldingRules = {} => out_category = W.other
       /\ (in_text = <<>> /\ in_emojis = <<>>) =>
            (out_category = W.other /\ out_evaluated = 0)

\* C9 (amended): as above, except that only daily.py assign_category has the
\* shortcut; manual-insert.py assign_category evaluates every predicate of its
\* chain on the empty input before it returns its default label "other".
C9_TotalShortcutInDailyOnly ==
  /\ pc = "returned" =>
       /\ out_category \in CategoryLabels
       /\ HoldingRules = {} => out_category = W.general
       /\ (in_keywords = {} /\ in_emojis = <<>>) =>
            (out_category = W.general /\ out_evaluated = 0)
  /\ pc = "manual_returned" =>
       /\ out_category \in ManualCategoryLabels
       /\ ManualHoldingRules = {} => out_category = W.other
       /\ (in_text = <<>> /\ in_emojis = <<>>) =>
            (out_category = W.other /\ out_evaluated = Len(ManualCategoryRules))

\* manual-insert.py assign_category has returned on the empty text with no
\* markers: it went through its whole chain and gave its default label.
C9_Witness ==
  /\ pc = "manual_returned"
  /\ in_text = <<>> /\ in_emojis = <<>>
  /\ out_category = W.other /\ out_evaluated = Len(ManualCategoryRules)

\* C10: in every snapshot written, the category of every entry is one of the
\* labels of the classifiers.
C10_WrittenCategoriesAreLabels ==
  written.exists =>
    \A i \in DOMAIN written.rows :
      written.rows[i].category \in CategoryLabels \cup ManualCategoryLabels

-----------------------------------------------------------------------------
\* The tech-stack resolvers applied to one input each.

\* Keywords of the model: words the statements of extract_techstack test (fastapi
\* and spring in two statements each) and one that none tests.
TechKeywordVocab ==
  { W.python, V.fastapi, V.spring, W.api, W.cloud, W.cli, V.docker, V.sse,
    V.go, W.gateway }

\* Markers of the model: the python, go, cloud, macos, windows and linux markers
\* of extract_techstack and the knowledge marker of assign_category.
GoMarker == TechRules[3].marker
MacosMarker == TechRules[18].marker
WindowsMarker == TechRules[19].marker
LinuxMarker == TechRules[20].marker
KnowledgeMarker == CategoryRules[18].marker
TechMarkerVocab ==
  { PythonMarker, GoMarker, TechRules[14].marker, MacosMarker, WindowsMarker,
    LinuxMarker, KnowledgeMarker }

\* The marker lists generate_emojis joins with spaces.
TechMarkerLists == SeqsUpTo(TechMarkerVocab, MaxMarkers)

\* Words of the texts given to manual-insert.py extract_tech_stack:
\* "Python", "golang", "tools", "cloud", "REST", "C#", "gateway", "websocket".
TechTextVocab ==
  { Cap(W.python), V.golang, W.tool \o <<115>>, W.cloud, Upper(W.rest),
    Cap(V.c_sharp), W.gateway, V.websocket }

TechTextLists == SeqsUpTo(TechTextVocab, MaxWords)

\* The python, cloud, macos, windows and linux markers of extract_tech_stack.
ManualTechMarkerVocab == { ManualTechRules[i].marker : i \in {1, 7, 10, 11, 12} }

ManualTechMarkerLists == SeqsUpTo(ManualTechMarkerVocab, MaxMarkers)

InitTech ==
  /\ prog = "resolve"
  /\ old = <<>> /\ new = <<>> /\ prior = <<>> /\ harvest = <<>>
  /\ merged = NotCalled /\ written = NoFile
  /\ out_category = <<>> /\ out_evaluated = 0
  /\ in_readme = <<>> /\ out_list = <<>>
  /\ files = NoFiles /\ today = 1
  /\ search_keywords = <<>> /\ response = NoResponse /\ page = 0
  /\ all_repo_data_for_keyword = <<>> /\ failed = {}
  /\ \/ /\ pc = "extract_techstack"
        /\ in_keywords \in SubsetsUpTo(TechKeywordVocab, MaxKeywords)
        /\ in_emojis \in {Join(Space, ms) : ms \in TechMarkerLists}
        /\ in_text = <<>>
     \/ /\ pc = "extract_tech_stack"
        /\ in_keywords = {}
        /\ in_emojis \in {Join(Space, ms) : ms \in ManualTechMarkerLists}
        /\ in_text \in {Join(Space, ws) : ws \in TechTextLists}

\* daily.py extract_techstack, lines 375-429.
ExtractTechstackCall ==
  /\ pc = "extract_techstack"
  /\ out_list' = extract_techstack(in_keywords, {}, in_emojis)
  /\ pc' = "techstack_returned"
  /\ UNCHANGED <<prog, old, new, prior, harvest, merged, written, in_keywords,
                 in_emojis, in_text, out_category, out_evaluated, in_readme, files, today,
                 search_keywords, response, page, all_repo_data_for_keyword, failed>>

\* manual-insert.py extract_tech_stack, lines 57-99.
ManualExtractTechStackCall ==
  /\ pc = "extract_tech_stack"
  /\ out_list' = extract_tech_stack(in_text, in_emojis)
  /\ pc' = "tech_stack_returned"
  /\ UNCHANGED <<prog, old, new, prior, harvest, merged, written, in_keywords,
                 in_emojis, in_text, out_category, out_evaluated, in_readme, files, today,
                 search_keywords, response, page, all_repo_data_for_keyword, failed>>

NextTech ==
  \/ ExtractTechstackCall
  \/ ManualExtractTechStackCall

SpecTech == InitTech /\ [][NextTech]_vars

\* The statements of extract_techstack / extract_tech_stack whose condition
\* holds on an input.
SatisfiedTech(keywords, emojis) ==
  {i \in 1..Len(TechRules) : TechRuleHolds(TechRules[i], keywords, emojis)}
ManualSatisfiedTech(text, emojis) ==
  {i \in 1..Len(ManualTechRules) : ManualTechRuleHolds(ManualTechRules[i], text, emojis)}

\* A sequence without its element at position p.
Without(s, p) == SubSeq(s, 1, p - 1) \o SubSeq(s, p + 1, Len(s))

\* less is the output on an input with one keyword, word or marker removed:
\* every label of a statement still satisfied on that input is in it.
KeepsSatisfied(less, labels_still_satisfied) == labels_still_satisfied \subseteq Range(less)

\* C11: the list extract_techstack / extract_tech_stack returns holds exactly the
\* labels of the statements whose condition the input satisfies, each once
\* (possibly none); on the input with one keyword (word of the text) or one
\* marker removed, every label of a still-satisfied statement is still returned.
C11_TechstackIsUnionOfSatisfied ==
  /\ pc = "techstack_returned" =>
       /\ Range(out_list) =
            {TechRules[i].label : i \in SatisfiedTech(in_keywords, in_emojis)}
       /\ Len(out_list) = Cardinality(Range(out_list))
       /\ \A k \in in_keywords :
            KeepsSatisfied(extract_techstack(in_keywords \ {k}, {}, in_emojis),
              {TechRules[i].label : i \in SatisfiedTech(in_keywords \ {k}, in_emojis)})
       /\ \A ms \in TechMarkerLists : Join(Space, ms) = in_emojis =>
            \A p \in DOMAIN ms :
              LET fewer == Join(Space, Without(ms, p)) IN
              KeepsSatisfied(extract_techstack(in_keywords, {}, fewer),
                {TechRules[i].label : i \in SatisfiedTech(in_keywords, fewer)})
  /\ pc = "tech_stack_returned" =>
       /\ Range(out_list) =
            {ManualTechRules[i].label : i \in ManualSatisfiedTech(in_text, in_emojis)}
       /\ Len(out_list) = Cardinality(Range(out_list))
       /\ \A ws \in TechTextLists : Join(Space, ws) = in_text =>
            \A p \in DOMAIN ws :
              LET fewer == Join(Space, Without(ws, p)) IN
              KeepsSatisfied(extract_tech_stack(fewer, in_emojis),
                {ManualTechRules[i].label : i \in ManualSatisfiedTech(fewer, in_emojis)})
       /\ \A ms \in ManualTechMarkerLists : Join(Space, ms) = in_emojis =>
            \A p \in DOMAIN ms :
              LET fewer == Join(Space, Without(ms, p)) IN
              KeepsSatisfied(extract_tech_stack(in_text, fewer),
                {ManualTechRules[i].label : i \in ManualSatisfiedTech(in_text, fewer)})

\* extract_techstack has returned on the keywords {fastapi, api}: three
\* statements are satisfied and the list has their three labels.
C11_Witness ==
  /\ pc = "techstack_returned"
  /\ in_keywords = {V.fastapi, W.api}
  /\ in_emojis = <<>>
  /\ SatisfiedTech(in_keywords, in_emojis) = {1, 7, 13}
  /\ out_list = <<W.python, V.fastmcp, W.http>>

\* The five families of tech-stack labels: 6 programming languages, 4 libraries
\* and frameworks, 3 transports, 3 deployments, 3 operating systems.
LanguageLabels == {W.python, V.typescript, V.go, V.rust, V.java, V.csharp}
LibraryLabels == {V.fastmcp, V.langchain, V.spring, V.quarkus}
TransportLabels == {V.sse, V.websocket, W.http}
DeploymentLabels == {W.cloud, V.local, W.embedded}
OperatingSystemLabels == {V.macos, V.windows, V.linux}
FamilyLabels ==
  LanguageLabels \cup LibraryLabels \cup TransportLabels \cup DeploymentLabels
    \cup OperatingSystemLabels

\* The markers of a marker string: the items joined with spaces.
MarkersOf(emojis, lists) == UNION {Range(ms) : ms \in {l \in lists : Join(Space, l) = emojis}}

\* C12: every label the tech-stack resolvers return is a label of the five
\* families (of 6, 4, 3, 3 and 3 labels); an operating-system label is returned
\* if and only if its marker is one of the markers of the input.
C12_TechLabelsInFamiliesOsByMarkerOnly ==
  /\ Cardinality(LanguageLabels) = 6 /\ Cardinality(LibraryLabels) = 4
  /\ Cardinality(TransportLabels) = 3 /\ Cardinality(DeploymentLabels) = 3
  /\ Cardinality(OperatingSystemLabels) = 3
  /\ pc = "techstack_returned" =>
       /\ Range(out_list) \subseteq FamilyLabels
       /\ \A i \in 1..Len(TechRules) :
            TechRules[i].label \in OperatingSystemLabels =>
              (TechRules[i].label \in Range(out_list)
                 <=> TechRules[i].marker \in MarkersOf(in_emojis, TechMarkerLists))
  /\ pc = "tech_stack_returned" =>
       /\ Range(out_list) \subseteq FamilyLabels
       /\ \A i \in 1..Len(ManualTechRules) :
            ManualTechRules[i].label \in OperatingSystemLabels =>
              (ManualTechRules[i].label \in Range(out_list)
                 <=> ManualTechRules[i].marker \in MarkersOf(in_emojis, ManualTechMarkerLists))

-----------------------------------------------------------------------------
\* The signal extractor and the keyword extractors.

\* Python None, where a str is expected.
PyNone == <<-1>>
\* str(x): "None" for None.
Str(x) == IF x = PyNone THEN <<78, 111, 110, 101>> ELSE x

\* The condition of one if statement of generate_emojis:
\* re.search(alternatives, text, re.IGNORECASE).
EmojiRuleHolds(rule, text) == AnyInText(rule.words, text)

\* The if statements of generate_emojis from statement i on, applied to text.
RECURSIVE EmojisFrom(_, _)
EmojisFrom(i, text) ==
  IF i > Len(EmojiRules) THEN <<>>
  ELSE (IF EmojiRuleHolds(EmojiRules[i], text) THEN <<EmojiRules[i].marker>> ELSE <<>>)
         \o EmojisFrom(i + 1, text)

\* The list emojis of generate_emojis(repo_data, readme_content) at its return:
\* every statement searches str(readme_content); repo_data is not read.
generate_emojis_list(repo_data, readme_content) == EmojisFrom(1, Str(readme_content))

\* daily.py generate_emojis, lines 176-232.
generate_emojis(repo_data, readme_content) ==
  Join(Space, generate_emojis_list(repo_data, readme_content))

\* The class [a-zA-Z0-9\-].
IsTokenChar(c) == (IsWordChar(c) /\ c # 95) \/ c = 45

\* \b between positions j and j + 1 of s (j = 0: the start; j = Len(s): the end).
WordBoundary(s, j) ==
  LET before == j >= 1 /\ IsWordChar(s[j])
      after  == j < Len(s) /\ IsWordChar(s[j + 1])
  IN before # after

\* The end of the longest match of [a-zA-Z0-9\-]+\b that starts at i, 0 if none.
TokenEnd(s, i) ==
  LET ends == {j \in i..Len(s) :
                 /\ \A k \in i..j : IsTokenChar(s[k])
                 /\ WordBoundary(s, j)}
  IN IF ends = {} THEN 0 ELSE CHOOSE j \in ends : \A k \in ends : k <= j

\* re.findall(r"\b[a-zA-Z0-9\-]+\b", s) from position i on.
RECURSIVE FindTokens(_, _)
FindTokens(s, i) ==
  IF i > Len(s) THEN <<>>
  ELSE IF WordBoundary(s, i - 1) /\ TokenEnd(s, i) # 0
       THEN <<SubSeq(s, i, TokenEnd(s, i))>> \o FindTokens(s, TokenEnd(s, i) + 1)
       ELSE FindTokens(s, i + 1)

\* daily.py extract_keywords(description), lines 269-278: list(set(...)).
extract_keywords(description) ==
  IF description = PyNone \/ description = <<>> THEN {}
  ELSE Range(FindTokens(Lower(description), 1))

\* str.split() from position i on: the runs of non-space characters.
RECURSIVE SplitSpaces(_, _)
SplitSpaces(s, i) ==
  IF i > Len(s) THEN <<>>
  ELSE IF IsSpaceChar(s[i]) THEN SplitSpaces(s, i + 1)
  ELSE LET ends == {j \in i..Len(s) : \A k \in i..j : ~IsSpaceChar(s[k])}
           j == CHOOSE e \in ends : \A k \in ends : k <= e
       IN <<SubSeq(s, i, j)>> \o SplitSpaces(s, j + 1)

\* The common_words of manual-insert.py extract_keywords (line 181).
common_words ==
  { <<116, 104, 101>>   \* the
  , <<97>>   \* a
  , <<97, 110>>   \* an
  , <<97, 110, 100>>   \* and
  , <<111, 114>>   \* or
  , <<98, 117, 116>>   \* but
  , <<105, 110>>   \* in
  , <<111, 110>>   \* on
  , <<97, 116>>   \* at
  , <<116, 111>>   \* to
  , <<102, 111, 114>>   \* for
  , <<111, 102>>   \* of
  , <<119, 105, 116, 104>>   \* with
  , <<98, 121>>   \* by
  , <<105, 115>>   \* is
  , <<97, 114, 101>>   \* are
  , <<119, 97, 115>>   \* was
  , <<119, 101, 114, 101>>   \* were
  , <<98, 101>>   \* be
  , <<98, 101, 101, 110>>   \* been
  , <<98, 101, 105, 110, 103>>   \* being
  , <<104, 97, 118, 101>>   \* have
  , <<104, 97, 115>>   \* has
  , <<104, 97, 100>>   \* had
  , <<100, 111>>   \* do
  , <<100, 111, 101, 115>>   \* does
  , <<100, 105, 100>>   \* did
  , <<119, 105, 108, 108>>   \* will
  , <<119, 111, 117, 108, 100>>   \* would
  , <<115, 104, 97, 108, 108>>   \* shall
  , <<115, 104, 111, 117, 108, 100>>   \* should
  , <<109, 97, 121>>   \* may
  , <<109, 105, 103, 104, 116>>   \* might
  , <<109, 117, 115, 116>>   \* must
  , <<99, 97, 110>>   \* can
  , <<99, 111, 117, 108, 100>>   \* could
  }

\* manual-insert.py extract_keywords(text), lines 175-183.
manual_extract_keywords(text) ==
  LET clean_text == [i \in 1..Len(text) |->
                       IF IsWordChar(text[i]) \/ IsSpaceChar(text[i]) THEN text[i] ELSE 32]
      words == SplitSpaces(Lower(clean_text), 1)
  IN {words[i] : i \in {k \in DOMAIN words : words[k] \notin common_words /\ Len(words[k]) > 2}}

-----------------------------------------------------------------------------
\* The signal extractor and the keyword extractors applied to one input each.

\* Words of the descriptions given to the keyword extractors.
DescriptionVocab ==
  { Cap(W.a), Cap(W.python), W.python, Upper(W.mcp), W.database, W.gateway,
    <<84, 104, 101>>,   \* The
    <<109, 99, 112, 45, 115, 101, 114, 118, 101, 114>>,   \* mcp-server
    <<109, 121, 95, 116, 111, 111, 108>>,   \* my_tool
    <<115, 113, 108, 44>> }  \* sql,

\* The descriptions: missing, or at most MaxWords words, or the scenario.
Descriptions ==
  {Join(Space, ws) : ws \in SeqsUpTo(DescriptionVocab, MaxWords)}
    \cup {ScenarioText, PyNone}

\* Words of the README bodies given to generate_emojis: "Python", "database",
\* "gateway", "Go", "linux", "tools", "REST", "foo".
ReadmeVocab ==
  { Cap(W.python), W.database, W.gateway, Cap(V.go), V.linux, W.tool \o <<115>>,
    Upper(W.rest), W.foo }

\* The README bodies fetch_readme_content returns: "" when there is none.
Readmes == {Join(Space, ws) : ws \in SeqsUpTo(ReadmeVocab, MaxWords)} \cup {ScenarioText}

\* The descriptions of the items generate_emojis is called with.
ItemDescriptions == {<<>>, ScenarioText, PyNone}

InitText ==
  /\ prog = "extract_text"
  /\ old = <<>> /\ new = <<>> /\ prior = <<>> /\ harvest = <<>>
  /\ merged = NotCalled /\ written = NoFile
  /\ out_category = <<>> /\ out_evaluated = 0
  /\ in_keywords = {} /\ in_emojis = <<>> /\ out_list = <<>>
  /\ files = NoFiles /\ today = 1
  /\ search_keywords = <<>> /\ response = NoResponse /\ page = 0
  /\ all_repo_data_for_keyword = <<>> /\ failed = {}
  /\ \/ /\ pc = "generate_emojis"
        /\ in_text \in ItemDescriptions
        /\ in_readme \in Readmes
     \/ /\ pc = "extract_keywords"
        /\ in_text \in Descriptions
        /\ in_readme = <<>>
     \/ /\ pc = "manual_extract_keywords"
        /\ in_text \in Descriptions \ {PyNone}
        /\ in_readme = <<>>

\* daily.py search_github_repos, line 138: generate_emojis(item, readme_content).
\* out_list is the list emojis at the return, out_category the string returned.
GenerateEmojisCall ==
  /\ pc = "generate_emojis"
  /\ out_list' = generate_emojis_list([description |-> in_text], in_readme)
  /\ out_category' = generate_emojis([description |-> in_text], in_readme)
  /\ pc' = "emojis_returned"
  /\ UNCHANGED <<prog, old, new, prior, harvest, merged, written, in_keywords,
                 in_emojis, in_text, out_evaluated, in_readme, files, today,
                 search_keywords, response, page, all_repo_data_for_keyword, failed>>

\* daily.py extract_keywords, lines 269-278; out_list is the list returned, in
\* some order.
ExtractKeywordsCall ==
  /\ pc = "extract_keywords"
  /\ out_list' = SeqOfSet(extract_keywords(in_text))
  /\ pc' = "keywords_returned"
  /\ UNCHANGED <<prog, old, new, prior, harvest, merged, written, in_keywords,
                 in_emojis, in_text, out_category, out_evaluated, in_readme, files, today,
                 search_keywords, response, page, all_repo_data_for_keyword, failed>>

\* manual-insert.py extract_keywords, lines 175-183 (its descriptions are the
\* strings extract_repo_info found, never None).
ManualExtractKeywordsCall ==
  /\ pc = "manual_extract_keywords"
  /\ out_list' = SeqOfSet(manual_extract_keywords(in_text))
  /\ pc' = "manual_keywords_returned"
  /\ UNCHANGED <<prog, old, new, prior, harvest, merged, written, in_keywords,
                 in_emojis, in_text, out_category, out_evaluated, in_readme, files, today,
                 search_keywords, response, page, all_repo_data_for_keyword, failed>>

NextText ==
  \/ GenerateEmojisCall
  \/ ExtractKeywordsCall
  \/ ManualExtractKeywordsCall

SpecText == InitText /\ [][NextText]_vars

\* The text the claim has the signal extractor scan: the description (nothing
\* for a missing one) and the README body.
DescriptionAndBody(description, readme) ==
  (IF description = PyNone THEN <<>> ELSE description) \o Space \o readme

DatabaseMarker == EmojiRules[18].marker

\* C13: the markers generate_emojis returns are those of every statement whose
\* pattern matches the description or the README body; for the description
\* "A Python MCP database gateway" they include the python, database and
\* utility markers whatever the body is; an empty description and body give no
\* marker.
C13_SignalsFromDescriptionAndBody ==
  pc = "emojis_returned" =>
    /\ Range(out_list) =
         {EmojiRules[i].marker :
            i \in {k \in 1..Len(EmojiRules) :
                     EmojiRuleHolds(EmojiRules[k], DescriptionAndBody(in_text, in_readme))}}
    /\ in_text = ScenarioText =>
         {PythonMarker, DatabaseMarker, UtilityMarker} \subseteq Range(out_list)
    /\ (in_text = <<>> /\ in_readme = <<>>) => out_list = <<>>

\* The markers generate_emojis can append, and the markers assign_category and
\* extract_techstack test for.
EmittedMarkers == {EmojiRules[i].marker : i \in 1..Len(EmojiRules)}
TestedMarkers ==
  ({CategoryRules[i].marker : i \in 1..Len(CategoryRules)}
     \cup {TechRules[i].marker : i \in 1..Len(TechRules)}) \ {<<>>}

\* C14: every marker generate_emojis returns is a marker assign_category or
\* extract_techstack tests for, and every marker they test for is one
\* generate_emojis can return.
C14_SameMarkerVocabulary ==
  pc = "emojis_returned" =>
    /\ Range(out_list) \subseteq TestedMarkers
    /\ TestedMarkers \subseteq EmittedMarkers

\* The maximal runs of letters, digits and hyphens of s.
TokenRuns(s) ==
  LET spans == {ij \in (1..Len(s)) \X (1..Len(s)) :
                  /\ ij[1] <= ij[2]
                  /\ \A k \in ij[1]..ij[2] : IsTokenChar(s[k])
                  /\ ij[1] = 1 \/ ~IsTokenChar(s[ij[1] - 1])
                  /\ ij[2] = Len(s) \/ ~IsTokenChar(s[ij[2] + 1])}
  IN {SubSeq(s, ij[1], ij[2]) : ij \in spans}

\* C15: extract_keywords returns the lower-case letter/digit/hyphen tokens of
\* the description, each once, no stop word removed; nothing for an empty or
\* missing description; {a, python, mcp, database, gateway} for
\* "A Python MCP database gateway".
C15_KeywordsAreDescriptionTokens ==
  pc \in {"keywords_returned", "manual_keywords_returned"} =>
    /\ Range(out_list) =
         (IF in_text = PyNone THEN {} ELSE TokenRuns(Lower(in_text)))
    /\ Len(out_list) = Cardinality(Range(out_list))
    /\ in_text = ScenarioText =>
         Range(out_list) = {W.a, W.python, W.mcp, W.database, W.gateway}

-----------------------------------------------------------------------------
\* The previous artifact: what csv wrote and what read_previous_data reads.
\*
\* The content of an artifact is the sequence of its items: the rows
\* csv.DictReader yields, in which the keywords and techstack cells are strings,
\* or Unreadable, an item at which the reader raises (src/daily.py:497,
\* src/extract_mcp_servers.py:74). The counters are kept as numbers.

Unreadable == [unreadable |-> TRUE]
IsUnreadable(item) == "unreadable" \in DOMAIN item

\* Lines 500-503 of daily.py (76-79 of extract_mcp_servers.py): a non-empty
\* keywords or techstack cell is replaced by its split(',').
ReadRow(row) ==
  [row EXCEPT !.keywords = IF @.v # <<>> THEN PyList(SplitComma(@.v)) ELSE @,
              !.techstack = IF @.v # <<>> THEN PyList(SplitComma(@.v)) ELSE @]

\* The loop of read_previous_data of daily.py from item i on, repos being the
\* dict built so far: the exception of an unreadable item is caught after the
\* loop (line 504) and repos is returned as it is.
RECURSIVE ReadPreviousFrom(_, _, _)
ReadPreviousFrom(items, i, repos) ==
  IF i > Len(items) THEN repos
  ELSE IF IsUnreadable(items[i]) THEN repos
  ELSE ReadPreviousFrom(items, i + 1, DictSet(repos, ReadRow(items[i])))

\* daily.py read_previous_data, lines 483-507.
read_previous_data(items) == ReadPreviousFrom(items, 1, <<>>)

\* The same loop of extract_mcp_servers.py, servers being the list built so far.
RECURSIVE ExtractReadPreviousFrom(_, _, _)
ExtractReadPreviousFrom(items, i, servers) ==
  IF i > Len(items) THEN servers
  ELSE IF IsUnreadable(items[i]) THEN servers
  ELSE ExtractReadPreviousFrom(items, i + 1, Append(servers, ReadRow(items[i])))

\* extract_mcp_servers.py read_previous_data, lines 60-84.
extract_read_previous_data(items) == ExtractReadPreviousFrom(items, 1, <<>>)

\* get_previous_day_file: the day before today if its artifact exists, 0 (None)
\* otherwise. No artifact exists for a day before the first.
get_previous_day_file(fs, day) ==
  IF day - 1 \in DOMAIN fs /\ fs[day - 1].exists THEN day - 1 ELSE 0

\* Lines 611-616 of daily.py main: old_repos.
DailyOldRepos(fs, day) ==
  LET prev_file == get_previous_day_file(fs, day) IN
  IF prev_file # 0 THEN read_previous_data(fs[prev_file].rows) ELSE <<>>

\* Lines 253-257 of extract_mcp_servers.py main: old_servers.
ExtractOldServers(fs, day) ==
  LET prev_file == get_previous_day_file(fs, day) IN
  IF prev_file # 0 THEN extract_read_previous_data(fs[prev_file].rows) ELSE <<>>

\* The rows of an artifact of an earlier run.
FileRows == UNION {Range(CsvRows(SaveRepoRows(<<r>>))) : r \in PriorRows}

\* Yesterday's artifact: absent, or at most MaxPrior items, rows or unreadable.
PreviousArtifacts ==
  {NoFile} \cup {File(items) : items \in SeqsUpTo(FileRows \cup {Unreadable}, MaxPrior)}

\* A run on day 2, before main reads the previous artifact.
InitRead ==
  /\ prog \in {"extract", "daily"}
  /\ pc = "start"
  /\ today = 2
  /\ \E f \in PreviousArtifacts : files = [d \in Days |-> IF d = 1 THEN f ELSE NoFile]
  /\ old = <<>> /\ new = <<>> /\ prior = <<>> /\ harvest = <<>>
  /\ merged = NotCalled /\ written = NoFile
  /\ in_keywords = {} /\ in_emojis = <<>> /\ in_text = <<>>
  /\ out_category = <<>> /\ out_evaluated = 0
  /\ in_readme = <<>> /\ out_list = <<>>
  /\ search_keywords = <<>> /\ response = NoResponse /\ page = 0
  /\ all_repo_data_for_keyword = <<>> /\ failed = {}

\* daily.py main, lines 611-616.
DailyReadPrevious ==
  /\ prog = "daily" /\ pc = "start"
  /\ old' = DailyOldRepos(files, today)
  /\ pc' = "harvest"
  /\ UNCHANGED <<prog, new, prior, harvest, merged, written, in_keywords, in_emojis,
                 in_text, out_category, out_evaluated, in_readme, out_list, files, today,
                 search_keywords, response, page, all_repo_data_for_keyword, failed>>

\* extract_mcp_servers.py main, lines 253-257.
ExtractReadPrevious ==
  /\ prog = "extract" /\ pc = "start"
  /\ old' = ExtractOldServers(files, today)
  /\ pc' = "harvest"
  /\ UNCHANGED <<prog, new, prior, harvest, merged, written, in_keywords, in_emojis,
                 in_text, out_category, out_evaluated, in_readme, out_list, files, today,
                 search_keywords, response, page, all_repo_data_for_keyword, failed>>

NextRead ==
  \/ DailyReadPrevious
  \/ ExtractReadPrevious

SpecRead == InitRead /\ [][NextRead]_vars

\* The previous artifact is absent, or reading it fails at some item.
PreviousAbsentOrMalformed ==
  \/ ~files[today - 1].exists
  \/ \E i \in DOMAIN files[today - 1].rows : IsUnreadable(files[today - 1].rows[i])

\* C16: when the previous artifact is absent or reading it fails, at its start
\* or in the middle, main goes on and the prior snapshot it merges with has no
\* entry.
C16_MalformedPreviousIsEmpty ==
  (pc = "harvest" /\ PreviousAbsentOrMalformed) => old = <<>>

-----------------------------------------------------------------------------
\* Runs of the two programs over several days, on the same data directory.
\*
\* Both save_to_csv functions write data/mcp_servers_<today>.csv, opened with
\* mode 'w' (src/daily.py:587 and 593, src/extract_mcp_servers.py:238 and 244):
\* a run replaces the artifact an earlier run wrote on the same day. A run is
\* one action: main reads, harvests, merges and saves without interruption.

InitDays ==
  /\ prog = "none"
  /\ pc = "idle"
  /\ today = 1
  /\ files = NoFiles
  /\ old = <<>> /\ new = <<>> /\ prior = <<>> /\ harvest = <<>>
  /\ merged = NotCalled /\ written = NoFile
  /\ in_keywords = {} /\ in_emojis = <<>> /\ in_text = <<>>
  /\ out_category = <<>> /\ out_evaluated = 0
  /\ in_readme = <<>> /\ out_list = <<>>
  /\ search_keywords = <<>> /\ response = NoResponse /\ page = 0
  /\ all_repo_data_for_keyword = <<>> /\ failed = {}

\* datetime.now() of the next run is a later day (src/daily.py:474 and 586).
DayPasses ==
  /\ today < MaxDays
  /\ today' = today + 1
  /\ UNCHANGED <<prog, pc, old, new, prior, harvest, merged, written, in_keywords, in_emojis,
                 in_text, out_category, out_evaluated, in_readme, out_list, files,
                 search_keywords, response, page, all_repo_data_for_keyword, failed>>

\* extract_mcp_servers.py main, lines 251-274.
ExtractRun ==
  /\ \E new_servers \in Harvests :
       LET old_servers == ExtractOldServers(files, today)
           merged_servers == merge_servers(old_servers, new_servers)
       IN  files' = [files EXCEPT ![today] = File(CsvRows(merged_servers))]
  /\ prog' = "extract"
  /\ pc' = "done"
  /\ UNCHANGED <<old, new, prior, harvest, merged, written, in_keywords, in_emojis,
                 in_text, out_category, out_evaluated, in_readme, out_list, today,
                 search_keywords, response, page, all_repo_data_for_keyword, failed>>

\* daily.py main, lines 607-628, when merge_repos returns.
DailyRunSaves ==
  /\ \E new_repos \in SearchResults :
       LET old_repos == DailyOldRepos(files, today)
           merged_repos == merge_repos(old_repos, new_repos)
       IN  /\ merged_repos.status = "returned"
           /\ files' = [files EXCEPT ![today] = File(CsvRows(SaveRepoRows(merged_repos.rows)))]
  /\ prog' = "daily"
  /\ pc' = "done"
  /\ UNCHANGED <<old, new, prior, harvest, merged, written, in_keywords, in_emojis,
                 in_text, out_category, out_evaluated, in_readme, out_list, today,
                 search_keywords, response, page, all_repo_data_for_keyword, failed>>

\* daily.py main, lines 607-624, when merge_repos raises: nothing is written.
DailyRunFails ==
  /\ \E new_repos \in SearchResults :
       merge_repos(DailyOldRepos(files, today), new_repos).status = "raised"
  /\ prog' = "daily"
  /\ pc' = "failed"
  /\ UNCHANGED <<old, new, prior, harvest, merged, written, in_keywords, in_emojis,
                 in_text, out_category, out_evaluated, in_readme, out_list, files, today,
                 search_keywords, response, page, all_repo_data_for_keyword, failed>>

NextDays ==
  \/ DayPasses
  \/ ExtractRun
  \/ DailyRunSaves
  \/ DailyRunFails

SpecDays == InitDays /\ [][NextDays]_vars

\* The names of the most recently persisted artifact: the entries known so far.
RECURSIVE LatestNames(_, _)
LatestNames(fs, d) ==
  IF d = 0 THEN {}
  ELSE IF fs[d].exists THEN NamesOf(fs[d].rows)
  ELSE LatestNames(fs, d - 1)

\* C17: over any sequence of runs, days without a run and days with runs of
\* both programs included, no step loses a name of the most recently persisted
\* artifact.
C17_KnownNamesNeverLost ==
  [][LatestNames(files, MaxDays) \subseteq LatestNames(files', MaxDays)]_vars

-----------------------------------------------------------------------------
\* search_github_repos of daily.py, one request at a time.
\*
\* new holds repo_data, the dict the function builds and main receives as
\* new_repos: a sequence of [keyword, repos] in insertion order. The keyword
\* the loop is at is the one after those that have an entry in repo_data.

\* The thresholds main passes (line 620): the defaults of MIN_STARS and MIN_FORKS.
MIN_STARS == 10
MIN_FORKS == 5

\* The items of a response: data.get("items", []), with the README that
\* fetch_readme_content returns for the item.
SearchItems ==
  { [ name             |-> n,
      description      |-> <<>>,
      html_url         |-> NewUrl,
      stargazers_count |-> c.stars,
      forks_count      |-> c.forks,
      readme           |-> <<>> ] :
    n \in HarvestNames,
    c \in { [stars |-> MIN_STARS,     forks |-> MIN_FORKS],
            [stars |-> MIN_STARS - 1, forks |-> MIN_FORKS],
            [stars |-> MIN_STARS,     forks |-> MIN_FORKS - 1] } }

\* A response with status 200 and its items; next: its Link header names a
\* next page.
Page(items, next) == [status |-> "ok", items |-> items, next |-> next]

\* requests.get or raise_for_status raised a RequestException.
RequestFailed == [status |-> "failed", items |-> <<>>, next |-> FALSE]

\* The mutant of the filter: the forks threshold is not applied.
PassesStarsOnly(item, min_stars, min_forks) ==
  item.stargazers_count >= min_stars

\* Lines 127-131: the filter on an item.
PassesThresholds(item, min_stars, min_forks) ==
  item.stargazers_count >= min_stars /\ item.forks_count >= min_forks

\* Lines 141-151: the record built for an item.
RepoDataOf(item) ==
  [ name        |-> item.name,
    description |-> item.description,
    html_url    |-> item.html_url,
    stars       |-> item.stargazers_count,
    forks       |-> item.forks_count,
    readme      |-> item.readme,
    emojis      |-> generate_emojis(item, item.readme) ]

\* Lines 125-151: repo_data_for_keyword of one response, from item i on.
RECURSIVE RepoDataForKeywordFrom(_, _, _, _)
RepoDataForKeywordFrom(items, i, min_stars, min_forks) ==
  IF i > Len(items) THEN <<>>
  ELSE (IF PassesThresholds(items[i], min_stars, min_forks)
          THEN <<RepoDataOf(items[i])>> ELSE <<>>)
       \o RepoDataForKeywordFrom(items, i + 1, min_stars, min_forks)

\* The lists of items a response can hold.
SearchPages == SeqsUpTo(SearchItems, MaxRepos)

\* repo_data_for_keyword for each of these lists, under the thresholds of main.
RepoDataForKeyword ==
  [items \in SearchPages |-> RepoDataForKeywordFrom(items, 1, MIN_STARS, MIN_FORKS)]

\* main, line 609: the keywords of KEYWORDS_ENV.
SearchKeywordLists == {SubSeq(SearchTerms, 1, n) : n \in 0..MaxTerms}

\* The position in search_keywords of the keyword the loop is at.
KeywordIndex == Len(new) + 1

\* all_repo_data_for_keyword when a request is made: line 113 empties it
\* before the first request for a keyword.
Collected == IF page = 0 THEN <<>> ELSE all_repo_data_for_keyword

\* daily.py main at line 620, on entry of search_github_repos.
InitSearch ==
  /\ prog = "daily"
  /\ pc = "search"
  /\ old \in {rows \in PriorSnapshots :
               /\ Len(rows) <= 1
               /\ \A i \in DOMAIN rows :
                    rows[i].name \in HarvestNames /\ rows[i].category = W.general}
  /\ search_keywords \in SearchKeywordLists
  /\ new = <<>> /\ prior = <<>> /\ harvest = <<>>
  /\ merged = NotCalled /\ written = NoFile
  /\ in_keywords = {} /\ in_emojis = <<>> /\ in_text = <<>>
  /\ out_category = <<>> /\ out_evaluated = 0
  /\ in_readme = <<>> /\ out_list = <<>>
  /\ files = NoFiles /\ today = 1
  /\ response = NoResponse /\ page = 0
  /\ all_repo_data_for_keyword = <<>> /\ failed = {}

\* Lines 114-167: a request is answered; its items are filtered and collected,
\* and without a next page the keyword's list is stored in repo_data. The
\* number of pages of a keyword is at most MaxPages.
PageArrives ==
  /\ prog = "daily" /\ pc = "search"
  /\ KeywordIndex <= Len(search_keywords)
  /\ \E items \in SearchPages, next \in BOOLEAN :
       /\ next => page + 1 < MaxPages
       /\ response' = Page(items, next)
       /\ all_repo_data_for_keyword' =
            Collected \o RepoDataForKeyword[items]
       /\ IF next
            THEN /\ page' = page + 1
                 /\ new' = new
            ELSE /\ page' = 0
                 /\ new' = Append(new, [keyword |-> search_keywords[KeywordIndex],
                                        repos   |-> all_repo_data_for_keyword'])
  /\ UNCHANGED <<prog, pc, old, prior, harvest, merged, written, in_keywords, in_emojis,
                 in_text, out_category, out_evaluated, in_readme, out_list, files, today,
                 search_keywords, failed>>

\* Lines 116-117 and 168-171: the request raises; the except clause stores the
\* empty list for the keyword and the loop goes on with the next keyword.
RequestFails ==
  /\ prog = "daily" /\ pc = "search"
  /\ KeywordIndex <= Len(search_keywords)
  /\ response' = RequestFailed
  /\ all_repo_data_for_keyword' = Collected
  /\ new' = Append(new, [keyword |-> search_keywords[KeywordIndex], repos |-> <<>>])
  /\ failed' = failed \cup {KeywordIndex}
  /\ page' = 0
  /\ UNCHANGED <<prog, pc, old, prior, harvest, merged, written, in_keywords, in_emojis,
                 in_text, out_category, out_evaluated, in_readme, out_list, files, today,
                 search_keywords>>

\* Line 173 and main line 620: the loop is over, repo_data is returned and the
\* local variables of the function are gone.
SearchReturns ==
  /\ prog = "daily" /\ pc = "search"
  /\ KeywordIndex > Len(search_keywords)
  /\ pc' = "merge"
  /\ response' = NoResponse
  /\ all_repo_data_for_keyword' = <<>>
  /\ UNCHANGED <<prog, old, new, prior, harvest, merged, written, in_keywords, in_emojis,
                 in_text, out_category, out_evaluated, in_readme, out_list, files, today,
                 search_keywords, page, failed>>

NextSearch ==
  \/ PageArrives
  \/ RequestFails
  \/ SearchReturns
  \/ DailyMergeReturns
  \/ DailyMergeRaises
  \/ DailySave

SpecSearch == InitSearch /\ [][NextSearch]_vars

\* A step in which a request fails stores the empty list for the keyword the
\* loop is at, whatever was collected for it, and stays in the loop.
FailureStoresEmpty ==
  (pc = "search" /\ failed' # failed) =>
    /\ new' = Append(new, [keyword |-> search_keywords[Len(new) + 1], repos |-> <<>>])
    /\ pc' = "search"

\* A step of the search leaves the results stored for earlier keywords as they are.
StoredResultsKept ==
  pc = "search" =>
    /\ Len(new') >= Len(new)
    /\ \A i \in DOMAIN new : new'[i] = new[i]

\* The function returns a result for every keyword, the empty list for those
\* whose request failed.
SearchCompletes ==
  (pc = "search" /\ pc' = "merge") =>
    /\ Len(new') = Len(search_keywords)
    /\ \A i \in DOMAIN new' : new'[i].keyword = search_keywords[i]
    /\ \A i \in failed : new'[i].repos = <<>>

\* After a search in which a request failed, merge_repos returns the merge of
\* the previously known entries with what was harvested.
MergeAfterFailureReturns ==
  (pc = "merge" /\ failed # {}) =>
    /\ merged'.status = "returned"
    /\ NamesOf(old) \subseteq NamesOf(merged'.rows)

\* The part of C18 about search_github_repos alone.
SearchSurvivesRequestFailure ==
  [][FailureStoresEmpty /\ StoredResultsKept /\ SearchCompletes]_vars

\* C18: a request failure for one keyword, on its first or a later page, gives
\* that keyword the empty list, leaves the results of the other keywords as
\* they are, the search goes on and returns, and the merge of the previously
\* known entries still runs.
C18_RequestFailureKeepsSearchAndMerge ==
  [][/\ FailureStoresEmpty
     /\ StoredResultsKept
     /\ SearchCompletes
     /\ MergeAfterFailureReturns]_vars

\* C19: every record search_github_repos collects or returns, for every
\* keyword and page, and every record handed to merge_repos, has at least
\* MIN_STARS stars and MIN_FORKS forks.
C19_ReturnedRecordsMeetThresholds ==
  /\ \A i \in DOMAIN new : \A j \in DOMAIN new[i].repos :
       new[i].repos[j].stars >= MIN_STARS /\ new[i].repos[j].forks >= MIN_FORKS
  /\ \A j \in DOMAIN all_repo_data_for_keyword :
       /\ all_repo_data_for_keyword[j].stars >= MIN_STARS
       /\ all_repo_data_for_keyword[j].forks >= MIN_FORKS
  /\ \A i \in DOMAIN harvest : \A j \in DOMAIN harvest[i].repos :
       harvest[i].repos[j].stars >= MIN_STARS /\ harvest[i].repos[j].forks >= MIN_FORKS

\* A keyword whose first page held a record that passes and whose last page
\* held an item with too few forks: the record is stored, the item is not.
C19_Witness ==
  /\ pc = "search"
  /\ Len(new) = Len(search_keywords)
  /\ response.status = "ok"
  /\ \E j \in DOMAIN response.items :
       /\ response.items[j].stargazers_count >= MIN_STARS
       /\ response.items[j].forks_count < MIN_FORKS
  /\ \E i \in DOMAIN new : Len(new[i].repos) = 1

\* The orderings of a batch: the same entries of new_repos in another order.
Reorderings(batch) ==
  {[i \in DOMAIN batch |-> batch[p[i]]] : p \in Permutations(DOMAIN batch)}

\* Two records of the batch with the same name carry the same description and
\* markers, hence the same candidate category.
OneCandidatePerName(batch) ==
  \A i, j \in DOMAIN RecordsOf(batch) :
    RecordsOf(batch)[i].name = RecordsOf(batch)[j].name =>
      /\ RecordsOf(batch)[i].description = RecordsOf(batch)[j].description
      /\ RecordsOf(batch)[i].emojis = RecordsOf(batch)[j].emojis

\* The two snapshots hold the same names and, for every name, the same stars,
\* forks, keyword set, techstack set and category.
SameSnapshot(a, b) ==
  /\ NamesOf(a) = NamesOf(b)
  /\ \A n \in NamesOf(a) :
       /\ DictGet(a, n).stars = DictGet(b, n).stars
       /\ DictGet(a, n).forks = DictGet(b, n).forks
       /\ TokenSet(DictGet(a, n).keywords) = TokenSet(DictGet(b, n).keywords)
       /\ TokenSet(DictGet(a, n).techstack) = TokenSet(DictGet(b, n).techstack)
       /\ DictGet(a, n).category = DictGet(b, n).category

\* C20: for any prior snapshot and any two orderings of the same batch with at
\* most one candidate category per name, merge_repos yields a snapshot and
\* yields the same one.
C20_MergeIndependentOfBatchOrder ==
  (prog = "daily" /\ MergeCalled /\ OneCandidatePerName(harvest)) =>
    \A batch \in Reorderings(harvest) :
      /\ merge_repos(prior, harvest).status = "returned"
      /\ merge_repos(prior, batch).status = "returned"
      /\ SameSnapshot(merge_repos(prior, harvest).rows, merge_repos(prior, batch).rows)

\* C21: after the merge has returned, the prior snapshot main passed in holds
\* the same rows with the same field values as when the merge was called, also
\* for the names of the harvest.
C21_MergeLeavesPriorUntouched ==
  MergeReturned => old = prior

\* C22: for every name of both the prior snapshot and the harvest, merge_repos
\* returns, and every marker the classifier or the resolver finds in the marker
\* string of the prior row or of an incoming record it also finds in the marker
\* string of the merged row.
C22_MarkersSurviveMerge ==
  (prog = "daily" /\ MergeCalled) =>
    \A n \in InBoth :
      /\ MergeReturned
      /\ \A m \in TestedMarkers :
           (\/ Contains(m, DictGet(prior, n).emojis)
            \/ \E i \in DOMAIN Incoming(n) : Contains(m, Incoming(n)[i].emojis))
           => Contains(m, DictGet(merged.rows, n).emojis)

-----------------------------------------------------------------------------
\* Saving a snapshot and reading it back on the next day.
\*
\* merged keeps the snapshot the first run handed to save_to_csv; old is what
\* the run of the next day reads from the artifact.

RoundTripWords == {W.mcp, W.sql}

\* Lists of these words, no word twice.
RoundTripLists ==
  {l \in SeqsUpTo(RoundTripWords, Cardinality(RoundTripWords)) :
     \A i, j \in DOMAIN l : l[i] = l[j] => i = j}

\* The keywords or techstack value of a row in memory. In daily.py the rows are
\* those of read_previous_data: a list, or '' for an empty cell. In
\* extract_mcp_servers.py they are also the harvested rows, which hold
\* ', '.join(list) (lines 186-187).
RoundTripValues(program) ==
  {PyStr(<<>>)} \cup {PyList(l) : l \in RoundTripLists \ {<<>>}}
    \cup (IF program = "extract"
          THEN {PyStr(Join(CommaSpace, l)) : l \in RoundTripLists} ELSE {})

\* The snapshots handed to save_to_csv: no row, or one row.
RoundTripSnapshots(program) ==
  {<<>>} \cup
  { << [ name        |-> W.bar,
         description |-> OldDescription,
         html_url    |-> OldUrl,
         stars       |-> 42,
         forks       |-> 7,
         keywords    |-> k,
         category    |-> W.database,
         techstack   |-> t,
         emojis      |-> PriorEmojis ] >> :
    k \in RoundTripValues(program), t \in RoundTripValues(program) }

\* main before save_to_csv (src/daily.py:627, src/extract_mcp_servers.py:272).
InitRoundTrip ==
  /\ prog \in {"extract", "daily"}
  /\ pc = "save"
  /\ merged \in {Returned(rows) : rows \in RoundTripSnapshots(prog)}
  /\ today = 1
  /\ files = NoFiles
  /\ old = <<>> /\ new = <<>> /\ prior = <<>> /\ harvest = <<>>
  /\ written = NoFile
  /\ in_keywords = {} /\ in_emojis = <<>> /\ in_text = <<>>
  /\ out_category = <<>> /\ out_evaluated = 0
  /\ in_readme = <<>> /\ out_list = <<>>
  /\ search_keywords = <<>> /\ response = NoResponse /\ page = 0
  /\ all_repo_data_for_keyword = <<>> /\ failed = {}

\* The program is started again on the next day.
NextDayRun ==
  /\ pc = "done"
  /\ today < MaxDays
  /\ today' = today + 1
  /\ pc' = "start"
  /\ UNCHANGED <<prog, old, new, prior, harvest, merged, written, in_keywords, in_emojis,
                 in_text, out_category, out_evaluated, in_readme, out_list, files,
                 search_keywords, response, page, all_repo_data_for_keyword, failed>>

NextRoundTrip ==
  \/ DailySave
  \/ ExtractSave
  \/ NextDayRun
  \/ DailyReadPrevious
  \/ ExtractReadPrevious

SpecRoundTrip == InitRoundTrip /\ [][NextRoundTrip]_vars

\* The tokens of a value read back, as they are: the items of a list, nothing
\* for the empty string.
ReadBackSet(x) ==
  IF x.type = "list" THEN Range(x.v)
  ELSE IF x.v = <<>> THEN {} ELSE {x.v}

\* C23: every row handed to save_to_csv is read back on the next day by
\* read_previous_data with the same keyword set and the same techstack set: no
\* token with spaces around it, nothing for an empty set.
C23_SaveReadRoundTrip ==
  (pc = "harvest" /\ today = 2) =>
    \A i \in DOMAIN merged.rows :
      /\ merged.rows[i].name \in NamesOf(old)
      /\ ReadBackSet(DictGet(old, merged.rows[i].name).keywords)
           = TokenSet(merged.rows[i].keywords)
      /\ ReadBackSet(DictGet(old, merged.rows[i].name).techstack)
           = TokenSet(merged.rows[i].techstack)

====
